---- MODULE Spec2Model ----
(***************************************************************************)
(* Multi-Signal Causal Correlation Engine (script/multi_signal_correlator) *)
(*                                                                         *)
(* The engine ingests trace records (http_parser request/response records  *)
(* and process records), builds a process tree, pairs requests with        *)
(* responses into LLM interactions, and correlates every interaction with  *)
(* the system events by three predicates: temporal window, process         *)
(* lineage, argument match.                                                *)
(*                                                                         *)
(* Text is a sequence of one-character strings.  Python dicts are records  *)
(* whose DOMAIN holds exactly the keys present.  Floats are exact          *)
(* rationals [n, d] in lowest terms.                                       *)
(***************************************************************************)
EXTENDS Integers, Sequences, FiniteSets, TLC

VARIABLES
    temporal_window_ms,   \* MultiSignalCorrelator.temporal_window_ms
    processes,            \* ProcessTreeBuilder.processes : pid -> ProcessNode
    root_processes,       \* ProcessTreeBuilder.root_processes (list of pids)
    pending_requests,     \* MultiSignalCorrelator._pending_requests : tid -> info
    llm_interactions,     \* MultiSignalCorrelator.llm_interactions
    system_events,        \* MultiSignalCorrelator.system_events
    correlations,         \* MultiSignalCorrelator.correlations
    pc,                   \* position of main(): "load", "correlated", "error"
    requests_seen,        \* request records _process_http_event has stored so far
    observed,             \* the records load_trace_data has passed on, in
                          \* order, where a specification observes them
    call                  \* the last direct call of a function of the engine:
                          \* its name, its arguments and what it returned

vars == <<temporal_window_ms, processes, root_processes, pending_requests,
          llm_interactions, system_events, correlations, pc, requests_seen,
          observed, call>>

-----------------------------------------------------------------------------
(* Bounds of the model *)

\* source=process records ingested
MaxProcessRecords == 2

\* http_parser request records ingested
MaxRequests == 2

\* http_parser records observed going into _process_event
MaxObserved == 4

\* source=process records ingested while the process tree is built
MaxTreeEvents == 4

-----------------------------------------------------------------------------
(* Generic helpers *)

Max(S) == CHOOSE x \in S : \A y \in S : y <= x

Min(S) == CHOOSE x \in S : \A y \in S : x <= y

Abs(x) == IF x < 0 THEN -x ELSE x

Range(s) == {s[i] : i \in 1..Len(s)}

\* dict.get(key, default)
Get(d, key, default) == IF key \in DOMAIN d THEN d[key] ELSE default

RECURSIVE Gcd(_, _)
Gcd(a, b) == IF b = 0 THEN a ELSE Gcd(b, a % b)

\* Exact rational n/d, d > 0, in lowest terms (the value a float stands for)
Rat(n, d) ==
    LET g == Gcd(Abs(n), Abs(d))
        s == IF d < 0 THEN -1 ELSE 1
    IN  [n |-> s * (n \div g), d |-> s * (d \div g)]

RatLcm(x, y) == (x.d \div Gcd(x.d, y.d)) * y.d

RatAdd(x, y) ==
    LET l == RatLcm(x, y)
    IN  Rat(x.n * (l \div x.d) + y.n * (l \div y.d), l)

RatMul(x, y) ==
    LET g1 == Gcd(Abs(x.n), y.d)
        g2 == Gcd(Abs(y.n), x.d)
    IN  Rat((x.n \div g1) * (y.n \div g2), (x.d \div g2) * (y.d \div g1))

RatLess(x, y) ==
    LET l == RatLcm(x, y)
    IN  x.n * (l \div x.d) < y.n * (l \div y.d)

RatLeq(x, y) == ~RatLess(y, x)

RatMax(x, y) == IF RatLess(x, y) THEN y ELSE x

RECURSIVE RatSum(_)
RatSum(s) == IF s = <<>> THEN Rat(0, 1) ELSE RatAdd(s[1], RatSum(Tail(s)))

-----------------------------------------------------------------------------
(* Text: Python str as a sequence of one-character strings *)

LowerLetters ==
    {"a","b","c","d","e","f","g","h","i","j","k","l","m",
     "n","o","p","q","r","s","t","u","v","w","x","y","z"}

UpperLetters ==
    {"A","B","C","D","E","F","G","H","I","J","K","L","M",
     "N","O","P","Q","R","S","T","U","V","W","X","Y","Z"}

Digits == {"0","1","2","3","4","5","6","7","8","9"}

Letters == LowerLetters \cup UpperLetters

Alnum == Letters \cup Digits

\* \w of the re module (ASCII part)
WordChars == Alnum \cup {"_"}

\* \s of the re module
SpaceChars == {" ", "\t", "\n", "\r"}

UpperSeq ==
    <<"A","B","C","D","E","F","G","H","I","J","K","L","M",
      "N","O","P","Q","R","S","T","U","V","W","X","Y","Z">>

LowerSeq ==
    <<"a","b","c","d","e","f","g","h","i","j","k","l","m",
      "n","o","p","q","r","s","t","u","v","w","x","y","z">>

\* case folding of one character, as re.IGNORECASE compares
LowerChar(c) ==
    IF c \in UpperLetters
    THEN LowerSeq[CHOOSE i \in 1..26 : UpperSeq[i] = c]
    ELSE c

LowerText(t) == [i \in 1..Len(t) |-> LowerChar(t[i])]

\* the largest j >= i-1 with t[i..j] all in class C (i-1: no character)
RECURSIVE RunEnd(_, _, _)
RunEnd(t, i, C) ==
    IF i <= Len(t) /\ t[i] \in C THEN RunEnd(t, i + 1, C) ELSE i - 1

\* the largest j >= i-1 with t[i..j] all outside class C
RECURSIVE RunEndNot(_, _, _)
RunEndNot(t, i, C) ==
    IF i <= Len(t) /\ t[i] \notin C THEN RunEndNot(t, i + 1, C) ELSE i - 1

\* t[i..] starts with the literal w
StartsAt(t, i, w) ==
    /\ i >= 1
    /\ i + Len(w) - 1 <= Len(t)
    /\ SubSeq(t, i, i + Len(w) - 1) = w

IsWordAt(t, i) == i >= 1 /\ i <= Len(t) /\ t[i] \in WordChars

\* \b between positions i-1 and i
WordBoundary(t, i) == IsWordAt(t, i - 1) # IsWordAt(t, i)

\* Python: sub in text
IsSubstring(sub, text) ==
    \E i \in 1..(Len(text) - Len(sub) + 1) : StartsAt(text, i, sub)

\* Python: sep.join(parts)
RECURSIVE Join(_, _)
Join(sep, parts) ==
    IF parts = <<>> THEN <<>>
    ELSE IF Len(parts) = 1 THEN parts[1]
    ELSE parts[1] \o sep \o Join(sep, Tail(parts))

StripChars == {"'", "\"", ".", ",", ";", ":", "!", "?"}

\* Python: ref.strip('\'".,;:!?')
RECURSIVE Strip(_)
Strip(s) ==
    IF s = <<>> THEN s
    ELSE IF s[1] \in StripChars THEN Strip(Tail(s))
    ELSE IF s[Len(s)] \in StripChars THEN Strip(SubSeq(s, 1, Len(s) - 1))
    ELSE s

-----------------------------------------------------------------------------
(* ArgumentMatcher: the six patterns of __init__.  Each XxxEnd(t, i) is the *)
(* index of the last character of the match of the pattern that starts at  *)
(* position i of t, or 0 when the pattern does not match there.            *)

\* file_patterns[0]: ([/~][a-zA-Z0-9_\-./]+)
FilePathChars == Alnum \cup {"_", "-", ".", "/"}

FilePathEnd(t, i) ==
    IF i <= Len(t) /\ t[i] \in {"/", "~"} /\ RunEnd(t, i + 1, FilePathChars) >= i + 1
    THEN RunEnd(t, i + 1, FilePathChars)
    ELSE 0

\* file_patterns[1]: ([a-zA-Z0-9_\-]+\.[a-zA-Z]{2,4})
NameChars == Alnum \cup {"_", "-"}

FileNameEnd(t, i) ==
    LET r == RunEnd(t, i, NameChars)
        l == RunEnd(t, r + 2, Letters)
    IN  IF r >= i /\ StartsAt(t, r + 1, <<".">>) /\ l >= r + 3
        THEN Min({l, r + 5})
        ELSE 0

\* command_patterns[0]: \b(cat|ls|grep|...|clang)\b with re.IGNORECASE
CommandWords ==
    << <<"c","a","t">>, <<"l","s">>, <<"g","r","e","p">>, <<"f","i","n","d">>,
       <<"v","i","m">>, <<"n","a","n","o">>, <<"c","o","d","e">>,
       <<"p","y","t","h","o","n">>, <<"n","o","d","e">>, <<"n","p","m">>,
       <<"g","i","t">>, <<"m","a","k","e">>, <<"g","c","c">>,
       <<"c","l","a","n","g">> >>

CommandWordEnd(t, i) ==
    LET lt == LowerText(t)
        ok == {k \in 1..Len(CommandWords) :
                  /\ StartsAt(lt, i, CommandWords[k])
                  /\ WordBoundary(t, i + Len(CommandWords[k]))}
    IN  IF WordBoundary(t, i) /\ ok # {}
        THEN i + Len(CommandWords[Min(ok)]) - 1
        ELSE 0

\* command_patterns[1]: \b([..]+\.py|[..]+\.js|[..]+\.c)\b with re.IGNORECASE
ScriptSuffixes == << <<".","p","y">>, <<".","j","s">>, <<".","c">> >>

ScriptNameEnd(t, i) ==
    LET r  == RunEnd(t, i, NameChars)
        lt == LowerText(t)
        ok == {k \in 1..Len(ScriptSuffixes) :
                  /\ StartsAt(lt, r + 1, ScriptSuffixes[k])
                  /\ WordBoundary(t, r + 1 + Len(ScriptSuffixes[k]))}
    IN  IF WordBoundary(t, i) /\ r >= i /\ ok # {}
        THEN r + Len(ScriptSuffixes[Min(ok)])
        ELSE 0

\* url_patterns[0]: (https?://[a-zA-Z0-9\-._~:/?#[\]@!$&\'()*+,;=]+)
UrlChars ==
    Alnum \cup {"-", ".", "_", "~", ":", "/", "?", "#", "[", "]", "@", "!",
                "$", "&", "'", "(", ")", "*", "+", ",", ";", "="}

UrlEnd(t, i) ==
    LET b == IF StartsAt(t, i, <<"h","t","t","p","s",":","/","/">>) THEN i + 8
             ELSE IF StartsAt(t, i, <<"h","t","t","p",":","/","/">>) THEN i + 7
             ELSE 0
    IN  IF b > 0 /\ RunEnd(t, b, UrlChars) >= b
        THEN RunEnd(t, b, UrlChars)
        ELSE 0

\* url_patterns[1]: ([a-zA-Z0-9\-]+\.[a-zA-Z]{2,6}(?:/[^\s]*)?)
HostChars == Alnum \cup {"-"}

DomainEnd(t, i) ==
    LET r == RunEnd(t, i, HostChars)
        l == RunEnd(t, r + 2, Letters)
        e == Min({l, r + 7})
    IN  IF r >= i /\ StartsAt(t, r + 1, <<".">>) /\ l >= r + 3
        THEN IF StartsAt(t, e + 1, <<"/">>)
             THEN RunEndNot(t, e + 2, SpaceChars)
             ELSE e
        ELSE 0

PatternNames ==
    {"file_path", "file_name", "command_word", "script_name", "url", "domain"}

PatternEnd(p, t, i) ==
    CASE p = "file_path"    -> FilePathEnd(t, i)
      [] p = "file_name"    -> FileNameEnd(t, i)
      [] p = "command_word" -> CommandWordEnd(t, i)
      [] p = "script_name"  -> ScriptNameEnd(t, i)
      [] p = "url"          -> UrlEnd(t, i)
      [] p = "domain"       -> DomainEnd(t, i)

\* re.findall(pattern, text): leftmost, non-overlapping matches from position i
RECURSIVE FindAll(_, _, _)
FindAll(p, t, i) ==
    IF i > Len(t) THEN {}
    ELSE LET e == PatternEnd(p, t, i)
         IN  IF e = 0 THEN FindAll(p, t, i + 1)
             ELSE {SubSeq(t, i, e)} \cup FindAll(p, t, e + 1)

\* ArgumentMatcher.extract_references
extract_references(text) ==
    LET references == UNION {FindAll(p, text, 1) : p \in PatternNames}
    IN  {Strip(ref) : ref \in {r \in references : Len(Strip(r)) > 2}}

\* Twice the number of matches counted for one reference (1 -> 2, 0.5 -> 1)
\* RefMatches2 without the elif branch of line 204: no partial credit
RefMatches2ExactOnly(ref, system_args) ==
    IF IsSubstring(ref, Join(<<" ">>, system_args)) THEN 2 ELSE 0

RefMatches2(ref, system_args) ==
    IF IsSubstring(ref, Join(<<" ">>, system_args)) THEN 2
    ELSE IF \E k \in 1..Len(system_args) :
                IsSubstring(ref, system_args[k]) \/ IsSubstring(system_args[k], ref)
         THEN 1
    ELSE 0

\* twice the value of `matches` after the loop over llm_refs
RECURSIVE SumRefMatches2(_, _)
SumRefMatches2(llm_refs, system_args) ==
    IF llm_refs = {} THEN 0
    ELSE LET ref == CHOOSE r \in llm_refs : TRUE
         IN  RefMatches2(ref, system_args)
             + SumRefMatches2(llm_refs \ {ref}, system_args)

\* calculate_argument_match_score with the early return of line 192
\* answering 1.0: nothing to match counts as a full match
calculate_argument_match_score_vacuous(llm_refs, system_args) ==
    IF llm_refs = {} \/ system_args = <<>>
    THEN Rat(1, 1)
    ELSE Rat(SumRefMatches2(llm_refs, system_args), 2 * Cardinality(llm_refs))

\* ArgumentMatcher.calculate_argument_match_score
calculate_argument_match_score(llm_refs, system_args) ==
    IF llm_refs = {} \/ system_args = <<>>
    THEN Rat(0, 1)
    ELSE Rat(SumRefMatches2(llm_refs, system_args), 2 * Cardinality(llm_refs))

\* Sample texts
TmpOutTxt == <<"/","t","m","p","/","o","u","t",".","t","x","t">>

OutTxt == <<"o","u","t",".","t","x","t">>

Tmp == <<"/","t","m","p">>

Cat == <<"c","a","t">>

Bash == <<"b","a","s","h">>

Ok == <<"o","k">>

\* "Run cat /tmp/out.txt."
RunCatTmpOutTxt ==
    <<"R","u","n"," ">> \o Cat \o <<" ">> \o TmpOutTxt \o <<".">>

-----------------------------------------------------------------------------
(* Program constants *)

\* default of temporal_window_ms in MultiSignalCorrelator.__init__
DefaultTemporalWindowMs == 500

\* nanoseconds per millisecond: temporal_window_ms * 1_000_000
NsPerMs == 1000000

\* Python None, for Optional values (modelled pids and timestamps are >= 0)
None == -1

\* self.temporal_window_ns
temporal_window_ns == temporal_window_ms * NsPerMs

\* match_score > 0.3 in _check_argument_match
ArgumentMatchThreshold == Rat(3, 10)

\* Python values held in the decoded records: a str or a list of str
Str(text) == [str |-> text]

List(items) == [list |-> items]

\* isinstance(value, list)
IsList(value) == "list" \in DOMAIN value

Unknown == Str(<<"u","n","k","n","o","w","n">>)

-----------------------------------------------------------------------------
(* ProcessTreeBuilder *)

\* ProcessNode(pid, ppid, tid, comm, start_time): no children, no parent
ProcessNode(pid, ppid, tid, comm, start_time) ==
    [pid |-> pid, ppid |-> ppid, tid |-> tid, comm |-> comm,
     start_time |-> start_time, children |-> <<>>, parent |-> None]

\* mutant: lst.append(x) without the membership test
AppendAlways(lst, x) == Append(lst, x)

\* lst.append(x) unless x is already in lst
AppendIfAbsent(lst, x) == IF x \in Range(lst) THEN lst ELSE Append(lst, x)

\* mutant: a new node adopts the parentless nodes that named it as ppid
AddProcessEventProcessesAdoptsOrphans(procs, event) ==
    LET data      == Get(event, "data", <<>>)
        pid       == Get(data, "pid", 0)
        ppid      == Get(data, "ppid", 0)
        tid       == Get(data, "tid", pid)
        comm      == Get(data, "comm", Unknown)
        timestamp == Get(event, "timestamp", 0)
        orphans   == {q \in DOMAIN procs :
                         procs[q].ppid = pid /\ procs[q].parent = None}
        created   == IF pid \in DOMAIN procs
                     THEN procs
                     ELSE [q \in DOMAIN procs \cup {pid} |->
                              IF q = pid
                              THEN ProcessNode(pid, ppid, tid, comm, timestamp)
                              ELSE IF q \in orphans
                              THEN [procs[q] EXCEPT !.parent = pid]
                              ELSE procs[q]]
    IN  IF ppid > 0 /\ ppid \in DOMAIN created
        THEN [q \in DOMAIN created |->
                 [created[q] EXCEPT
                    !.children = IF q = ppid THEN AppendIfAbsent(@, pid) ELSE @,
                    !.parent   = IF q = pid THEN ppid ELSE @]]
        ELSE created

\* mutant: a later event of a known pid rewrites the node's own fields
AddProcessEventProcessesUpdatesNode(procs, event) ==
    LET data      == Get(event, "data", <<>>)
        pid       == Get(data, "pid", 0)
        ppid      == Get(data, "ppid", 0)
        tid       == Get(data, "tid", pid)
        comm      == Get(data, "comm", Unknown)
        timestamp == Get(event, "timestamp", 0)
        created   == [q \in DOMAIN procs \cup {pid} |->
                         IF q # pid THEN procs[q]
                         ELSE IF pid \in DOMAIN procs
                         THEN [procs[pid] EXCEPT !.ppid = ppid, !.tid = tid,
                                                 !.comm = comm,
                                                 !.start_time = timestamp]
                         ELSE ProcessNode(pid, ppid, tid, comm, timestamp)]
    IN  IF ppid > 0 /\ ppid \in DOMAIN created
        THEN [q \in DOMAIN created |->
                 [created[q] EXCEPT
                    !.children = IF q = ppid THEN AppendIfAbsent(@, pid) ELSE @,
                    !.parent   = IF q = pid THEN ppid ELSE @]]
        ELSE created

\* ProcessTreeBuilder.add_process_event: the processes map after the event
AddProcessEventProcesses(procs, event) ==
    LET data      == Get(event, "data", <<>>)
        pid       == Get(data, "pid", 0)
        ppid      == Get(data, "ppid", 0)
        tid       == Get(data, "tid", pid)
        comm      == Get(data, "comm", Unknown)
        timestamp == Get(event, "timestamp", 0)
        created   == IF pid \in DOMAIN procs
                     THEN procs
                     ELSE [q \in DOMAIN procs \cup {pid} |->
                              IF q = pid
                              THEN ProcessNode(pid, ppid, tid, comm, timestamp)
                              ELSE procs[q]]
    IN  IF ppid > 0 /\ ppid \in DOMAIN created
        THEN [q \in DOMAIN created |->
                 [created[q] EXCEPT
                    !.children = IF q = ppid THEN AppendIfAbsent(@, pid) ELSE @,
                    !.parent   = IF q = pid THEN ppid ELSE @]]
        ELSE created

\* ProcessTreeBuilder.add_process_event: the root list after the event
AddProcessEventRoots(procs, roots, event) ==
    LET data == Get(event, "data", <<>>)
        pid  == Get(data, "pid", 0)
        ppid == Get(data, "ppid", 0)
        known == DOMAIN procs \cup {pid}
    IN  IF ppid > 0 /\ ppid \in known THEN roots
        ELSE IF ppid = 0 \/ ppid \notin known THEN AppendIfAbsent(roots, pid)
        ELSE roots

ChildPids(procs, S) == UNION {Range(procs[q].children) : q \in S}

\* every pid add_children(n) visits: the transitive children of the nodes in S
RECURSIVE Descendants(_, _, _)
Descendants(procs, S, acc) ==
    LET next == ChildPids(procs, S) \ acc
    IN  IF next = {} THEN acc ELSE Descendants(procs, next, acc \cup next)

\* add_children(node) recurses for ever (RecursionError): a child cycle below pid
RelatedDiverges(procs, pid) ==
    /\ pid \in DOMAIN procs
    /\ \E q \in {pid} \cup Descendants(procs, {pid}, {}) :
          q \in Descendants(procs, {q}, {})

\* mutant: the pid itself is not added to the related set
find_related_processes_without_self(procs, pid) ==
    IF pid \notin DOMAIN procs THEN {}
    ELSE LET node == procs[pid]
         IN  (IF node.parent # None THEN {procs[node.parent].pid} ELSE {})
             \cup Descendants(procs, {pid}, {})
             \cup (IF node.parent # None
                   THEN Range(procs[node.parent].children) \ {pid} ELSE {})

\* ProcessTreeBuilder.find_related_processes (when it returns)
find_related_processes(procs, pid) ==
    IF pid \notin DOMAIN procs THEN {}
    ELSE LET node == procs[pid]
         IN  {pid}
             \cup (IF node.parent # None THEN {procs[node.parent].pid} ELSE {})
             \cup Descendants(procs, {pid}, {})
             \cup (IF node.parent # None
                   THEN Range(procs[node.parent].children) ELSE {})

\* the `while current:` loop of find_process_lineage from `current` on:
\* lineage.insert(0, current); current = current.parent.  The loop is
\* deterministic, so reaching a node a second time means it never ends.
RECURSIVE LineageWalk(_, _, _, _)
LineageWalk(procs, current, lineage, visited) ==
    IF current = None THEN [returns |-> TRUE, lineage |-> lineage]
    ELSE IF current \in visited THEN [returns |-> FALSE, lineage |-> <<>>]
    ELSE LineageWalk(procs, procs[current].parent, <<current>> \o lineage,
                     visited \cup {current})

\* ProcessTreeBuilder.find_process_lineage: whether the call returns, and
\* the pids of the nodes of the list it returns
find_process_lineage(procs, pid) ==
    IF pid \notin DOMAIN procs THEN [returns |-> TRUE, lineage |-> <<>>]
    ELSE LineageWalk(procs, pid, <<>>, {})

-----------------------------------------------------------------------------
(* MultiSignalCorrelator: ingestion *)

\* no body (data.get('body', ''))
NoBody == [text |-> <<>>, json |-> [kind |-> "invalid"]]

\* the text items of a Claude-style content list
RECURSIVE ContentTexts(_)
ContentTexts(content) ==
    IF content = <<>> THEN <<>>
    ELSE LET item == content[1]
         IN  (IF Get(item, "type", <<>>) = <<"t","e","x","t">>
              THEN <<Get(item, "text", <<>>)>> ELSE <<>>)
             \o ContentTexts(Tail(content))

\* _extract_response_text raises: `'content' in json_body` on a JSON number
ExtractResponseTextRaises(response_data) ==
    LET body == Get(response_data, "body", NoBody)
    IN  body.text # <<>> /\ body.json.kind = "number"

\* MultiSignalCorrelator._extract_response_text.  A body is its raw text and
\* what json.loads makes of it: kind "invalid" (JSONDecodeError), or "object"
\* with the keys present, its content a list of blocks or a string.
extract_response_text(response_data) ==
    LET body == Get(response_data, "body", NoBody)
        json == body.json
    IN  IF body.text = <<>> THEN <<>>
        ELSE IF json.kind = "invalid" THEN body.text
        ELSE IF "content" \in DOMAIN json /\ json.content.kind = "list"
             THEN Join(<<" ">>, ContentTexts(json.content.items))
        ELSE IF "content" \in DOMAIN json /\ json.content.kind = "str"
             THEN json.content.text
        ELSE IF /\ "choices" \in DOMAIN json
                /\ json.choices # <<>>
                /\ "message" \in DOMAIN json.choices[1]
             THEN Get(json.choices[1].message, "content", <<>>)
        ELSE json.repr

\* LLMInteraction built by _process_http_event from the pending request
NewInteraction(request_info, event) ==
    LET data == Get(event, "data", <<>>)
    IN  [request_timestamp    |-> request_info.timestamp,
         response_timestamp   |-> Get(event, "timestamp", None),
         request_data         |-> request_info.data,
         response_data        |-> data,
         tid                  |-> Get(data, "tid", 0),
         pid                  |-> Get(data, "pid", 0),
         comm                 |-> Get(data, "comm", Str(<<>>)),
         extracted_references |->
             extract_references(extract_response_text(data))]

\* the pending entry stored for a request record
RequestInfo(event) ==
    [timestamp |-> Get(event, "timestamp", None),
     data      |-> Get(event, "data", <<>>)]

MessageType(event) == Get(Get(event, "data", <<>>), "message_type", "")

\* mutant: a request does not overwrite the pending entry of its tid
ProcessHttpRequestKeepsFirst(event) ==
    /\ pc = "load"
    /\ requests_seen < MaxRequests
    /\ event.source = "http_parser"
    /\ MessageType(event) = "request"
    /\ LET tid == Get(event.data, "tid", 0)
       IN  pending_requests' =
               [t \in DOMAIN pending_requests \cup {tid} |->
                   IF t \in DOMAIN pending_requests
                   THEN pending_requests[t] ELSE RequestInfo(event)]
    /\ requests_seen' = requests_seen + 1
    /\ UNCHANGED <<temporal_window_ms, processes, root_processes,
                   llm_interactions, system_events, correlations, pc>>

\* the request branch keeping one pending request for all tids
ProcessHttpRequestSingleSlot(event) ==
    /\ pc = "load"
    /\ requests_seen < MaxRequests
    /\ event.source = "http_parser"
    /\ MessageType(event) = "request"
    /\ LET tid == Get(event.data, "tid", 0)
       IN  pending_requests' = [t \in {tid} |-> RequestInfo(event)]
    /\ requests_seen' = requests_seen + 1
    /\ UNCHANGED <<temporal_window_ms, processes, root_processes,
                   llm_interactions, system_events, correlations, pc>>

\* _process_http_event, message_type == 'request'
ProcessHttpRequest(event) ==
    /\ pc = "load"
    /\ requests_seen < MaxRequests
    /\ event.source = "http_parser"
    /\ MessageType(event) = "request"
    /\ LET tid == Get(event.data, "tid", 0)
       IN  pending_requests' =
               [t \in DOMAIN pending_requests \cup {tid} |->
                   IF t = tid THEN RequestInfo(event) ELSE pending_requests[t]]
    /\ requests_seen' = requests_seen + 1
    /\ UNCHANGED <<temporal_window_ms, processes, root_processes,
                   llm_interactions, system_events, correlations, pc>>

\* mutant: the pending entry is not deleted after the match
ProcessHttpResponseKeepsPending(event) ==
    /\ pc = "load"
    /\ event.source = "http_parser"
    /\ MessageType(event) = "response"
    /\ LET tid == Get(event.data, "tid", 0)
       IN  IF tid \notin DOMAIN pending_requests
           THEN UNCHANGED <<llm_interactions, pc>>
           ELSE IF ExtractResponseTextRaises(event.data)
           THEN /\ pc' = "error"
                /\ UNCHANGED llm_interactions
           ELSE /\ llm_interactions' =
                       Append(llm_interactions,
                              NewInteraction(pending_requests[tid], event))
                /\ pc' = pc
    /\ UNCHANGED <<temporal_window_ms, processes, root_processes,
                   pending_requests, system_events, correlations,
                   requests_seen>>

\* mutant: the response text is extracted before the pending entry is looked up
ProcessHttpResponseExtractsFirst(event) ==
    /\ pc = "load"
    /\ event.source = "http_parser"
    /\ MessageType(event) = "response"
    /\ LET tid == Get(event.data, "tid", 0)
       IN  IF ExtractResponseTextRaises(event.data)
           THEN /\ pc' = "error"
                /\ UNCHANGED <<pending_requests, llm_interactions>>
           ELSE IF tid \notin DOMAIN pending_requests
           THEN UNCHANGED <<pending_requests, llm_interactions, pc>>
           ELSE /\ llm_interactions' =
                       Append(llm_interactions,
                              NewInteraction(pending_requests[tid], event))
                /\ pending_requests' =
                       [t \in DOMAIN pending_requests \ {tid} |->
                           pending_requests[t]]
                /\ pc' = pc
    /\ UNCHANGED <<temporal_window_ms, processes, root_processes,
                   system_events, correlations, requests_seen>>

\* _process_http_event, message_type == 'response'
ProcessHttpResponse(event) ==
    /\ pc = "load"
    /\ event.source = "http_parser"
    /\ MessageType(event) = "response"
    /\ LET tid == Get(event.data, "tid", 0)
       IN  IF tid \notin DOMAIN pending_requests
           THEN UNCHANGED <<pending_requests, llm_interactions, pc>>
           ELSE IF ExtractResponseTextRaises(event.data)
           THEN /\ pc' = "error"
                /\ UNCHANGED <<pending_requests, llm_interactions>>
           ELSE /\ llm_interactions' =
                       Append(llm_interactions,
                              NewInteraction(pending_requests[tid], event))
                /\ pending_requests' =
                       [t \in DOMAIN pending_requests \ {tid} |->
                           pending_requests[t]]
                /\ pc' = pc
    /\ UNCHANGED <<temporal_window_ms, processes, root_processes,
                   system_events, correlations, requests_seen>>

\* mutant: a system record that arrives before any interaction exists is
\* not kept for correlation
ProcessSystemEventAfterInteraction(event, records) ==
    /\ pc = "load"
    /\ Len(system_events) < records
    /\ event.source = "process"
    /\ LET data == Get(event, "data", <<>>)
       IN  IF "pid" \in DOMAIN data /\ "comm" \in DOMAIN data
           THEN /\ processes' = AddProcessEventProcesses(processes, event)
                /\ root_processes' =
                       AddProcessEventRoots(processes, root_processes, event)
           ELSE UNCHANGED <<processes, root_processes>>
    /\ system_events' = IF llm_interactions = <<>> THEN system_events
                        ELSE Append(system_events, event)
    /\ UNCHANGED <<temporal_window_ms, pending_requests, llm_interactions,
                   correlations, pc, requests_seen>>

\* _process_system_event keeping one copy of a record it has stored already
ProcessSystemEventOnce(event, records) ==
    /\ pc = "load"
    /\ Len(system_events) < records
    /\ event.source = "process"
    /\ LET data == Get(event, "data", <<>>)
       IN  IF "pid" \in DOMAIN data /\ "comm" \in DOMAIN data
           THEN /\ processes' = AddProcessEventProcesses(processes, event)
                /\ root_processes' =
                       AddProcessEventRoots(processes, root_processes, event)
           ELSE UNCHANGED <<processes, root_processes>>
    /\ system_events' = IF event \in Range(system_events) THEN system_events
                        ELSE Append(system_events, event)
    /\ UNCHANGED <<temporal_window_ms, pending_requests, llm_interactions,
                   correlations, pc, requests_seen>>

\* _process_system_event, for a trace of at most `records` system records
ProcessSystemEventWithin(event, records) ==
    /\ pc = "load"
    /\ Len(system_events) < records
    /\ event.source = "process"
    /\ LET data == Get(event, "data", <<>>)
       IN  IF "pid" \in DOMAIN data /\ "comm" \in DOMAIN data
           THEN /\ processes' = AddProcessEventProcesses(processes, event)
                /\ root_processes' =
                       AddProcessEventRoots(processes, root_processes, event)
           ELSE UNCHANGED <<processes, root_processes>>
    /\ system_events' = Append(system_events, event)
    /\ UNCHANGED <<temporal_window_ms, pending_requests, llm_interactions,
                   correlations, pc, requests_seen>>

\* _process_system_event
ProcessSystemEvent(event) == ProcessSystemEventWithin(event, MaxProcessRecords)

\* _process_ssl_event, _process_sse_event, a source no branch handles, and
\* an http_parser record that is neither a request nor a response
ProcessIgnoredEvent(event) ==
    /\ pc = "load"
    /\ \/ event.source \notin {"http_parser", "process"}
       \/ /\ event.source = "http_parser"
          /\ MessageType(event) \notin {"request", "response"}
    /\ UNCHANGED vars

-----------------------------------------------------------------------------
(* MultiSignalCorrelator: correlation.  A system event is referred to by   *)
(* its index in system_events, an interaction by its index in              *)
(* llm_interactions (the Python lists hold references to the same objects).*)

EventTimestamp(event) == Get(event, "timestamp", 0)

EventPid(event) == Get(Get(event, "data", <<>>), "pid", 0)

\* the strings one field contributes: a list's items, or the value itself
ValueStrings(value) == IF IsList(value) THEN value.list ELSE <<value.str>>

RECURSIVE FieldStrings(_, _)
FieldStrings(data, fields) ==
    IF fields = <<>> THEN <<>>
    ELSE (IF fields[1] \in DOMAIN data THEN ValueStrings(data[fields[1]]) ELSE <<>>)
         \o FieldStrings(data, Tail(fields))

\* the fields _check_argument_match reads
CheckArgumentFields == <<"args", "filename", "path", "command", "syscall">>

\* the fields _extract_event_arguments reads
ExtractArgumentFields ==
    <<"args", "filename", "path", "command", "syscall", "comm">>

\* MultiSignalCorrelator._extract_event_arguments
extract_event_arguments(event) ==
    FieldStrings(Get(event, "data", <<>>), ExtractArgumentFields)

\* MultiSignalCorrelator._check_argument_match
check_argument_match(interaction, event) ==
    IF interaction.extracted_references = {} THEN FALSE
    ELSE RatLess(ArgumentMatchThreshold,
                 calculate_argument_match_score(
                     interaction.extracted_references,
                     FieldStrings(Get(event, "data", <<>>), CheckArgumentFields)))

\* mutant: the window is open at its far end
in_time_window_open(interaction, event) ==
    /\ interaction.response_timestamp <= EventTimestamp(event)
    /\ EventTimestamp(event) < interaction.response_timestamp + temporal_window_ns

\* in_time_window of _find_related_system_events
in_time_window(interaction, event) ==
    /\ interaction.response_timestamp <= EventTimestamp(event)
    /\ EventTimestamp(event) <= interaction.response_timestamp + temporal_window_ns

\* in_process_tree of _find_related_system_events
in_process_tree(interaction, event) ==
    EventPid(event) \in find_related_processes(processes, interaction.pid)

\* mutant: the argument predicate is left out of the union
IsRelatedEventWithoutArgument(interaction, event) ==
    \/ in_time_window(interaction, event)
    \/ in_process_tree(interaction, event)

\* the condition under which _find_related_system_events keeps an event
IsRelatedEvent(interaction, event) ==
    \/ in_time_window(interaction, event)
    \/ in_process_tree(interaction, event)
    \/ check_argument_match(interaction, event)

\* an insertion that puts e before the entries of its own timestamp: the
\* sort is no longer stable
RECURSIVE InsertByTimestampUnstable(_, _)
InsertByTimestampUnstable(sorted, e) ==
    IF sorted = <<>> THEN <<e>>
    ELSE IF EventTimestamp(system_events[sorted[Len(sorted)]])
              < EventTimestamp(system_events[e])
         THEN Append(sorted, e)
         ELSE Append(InsertByTimestampUnstable(
                         SubSeq(sorted, 1, Len(sorted) - 1), e),
                     sorted[Len(sorted)])

\* list.sort(key=timestamp) as a stable insertion of index e into sorted
RECURSIVE InsertByTimestamp(_, _)
InsertByTimestamp(sorted, e) ==
    IF sorted = <<>> THEN <<e>>
    ELSE IF EventTimestamp(system_events[sorted[Len(sorted)]])
              <= EventTimestamp(system_events[e])
         THEN Append(sorted, e)
         ELSE Append(InsertByTimestamp(SubSeq(sorted, 1, Len(sorted) - 1), e),
                     sorted[Len(sorted)])

RECURSIVE SortByTimestamp(_)
SortByTimestamp(events) ==
    IF events = <<>> THEN <<>>
    ELSE InsertByTimestamp(
             SortByTimestamp(SubSeq(events, 1, Len(events) - 1)),
             events[Len(events)])

\* related_events after the loop over system_events[1..n], before the sort
RECURSIVE RelatedIndices(_, _)
RelatedIndices(interaction, n) ==
    IF n = 0 THEN <<>>
    ELSE RelatedIndices(interaction, n - 1)
         \o (IF IsRelatedEvent(interaction, system_events[n]) THEN <<n>> ELSE <<>>)

\* MultiSignalCorrelator._find_related_system_events
find_related_system_events(interaction) ==
    SortByTimestamp(RelatedIndices(interaction, Len(system_events)))

\* mutant: the max(0, ...) clip is missing
temporal_score_unclipped(interaction, event) ==
    LET time_diff == Abs(EventTimestamp(event) - interaction.response_timestamp)
    IN  RatAdd(Rat(1, 1), Rat(-time_diff, temporal_window_ns))

\* temporal_score with time_diff taken without abs(): the signed distance
temporal_score_signed(interaction, event) ==
    LET time_diff == EventTimestamp(event) - interaction.response_timestamp
    IN  RatMax(Rat(0, 1),
               RatAdd(Rat(1, 1), Rat(-time_diff, temporal_window_ns)))

\* temporal_score of _calculate_correlation_score
temporal_score(interaction, event) ==
    LET time_diff == Abs(EventTimestamp(event) - interaction.response_timestamp)
    IN  RatMax(Rat(0, 1),
               RatAdd(Rat(1, 1), Rat(-time_diff, temporal_window_ns)))

\* process_score of _calculate_correlation_score
process_score(interaction, event) ==
    IF EventPid(event) \in find_related_processes(processes, interaction.pid)
    THEN Rat(1, 1) ELSE Rat(0, 1)

\* argument_score of _calculate_correlation_score
argument_score(interaction, event) ==
    calculate_argument_match_score(interaction.extracted_references,
                                   extract_event_arguments(event))

\* mutant: the weights of the temporal and the argument term are swapped
combined_score_swapped(interaction, event) ==
    RatAdd(RatAdd(RatMul(temporal_score(interaction, event), Rat(4, 10)),
                  RatMul(process_score(interaction, event), Rat(3, 10))),
           RatMul(argument_score(interaction, event), Rat(3, 10)))

\* combined_score of _calculate_correlation_score
combined_score(interaction, event) ==
    RatAdd(RatAdd(RatMul(temporal_score(interaction, event), Rat(3, 10)),
                  RatMul(process_score(interaction, event), Rat(3, 10))),
           RatMul(argument_score(interaction, event), Rat(4, 10)))

\* MultiSignalCorrelator._calculate_correlation_score
calculate_correlation_score(interaction, events) ==
    IF events = <<>> THEN Rat(0, 1)
    ELSE RatMul(RatSum([k \in 1..Len(events) |->
                           combined_score(interaction, system_events[events[k]])]),
                Rat(1, Len(events)))

\* process_matches of _determine_correlation_type
process_matches(interaction, events) ==
    Cardinality({k \in 1..Len(events) :
                    in_process_tree(interaction, system_events[events[k]])})

\* temporal_matches of _determine_correlation_type
temporal_matches(interaction, events) ==
    Cardinality({k \in 1..Len(events) :
                    in_time_window(interaction, system_events[events[k]])})

\* argument_matches of _determine_correlation_type
argument_matches(interaction, events) ==
    Cardinality({k \in 1..Len(events) :
                    check_argument_match(interaction, system_events[events[k]])})

\* mutant: the predicate with the largest count wins, ties by priority
determine_correlation_type_by_count(interaction, events) ==
    IF /\ argument_matches(interaction, events) >= temporal_matches(interaction, events)
       /\ argument_matches(interaction, events) >= process_matches(interaction, events)
    THEN "argument_matching"
    ELSE IF temporal_matches(interaction, events) >= process_matches(interaction, events)
    THEN "temporal_proximity"
    ELSE "process_lineage"

\* mutant: a tie between temporal and lineage matches goes to temporal
determine_correlation_type_tie_temporal(interaction, events) ==
    IF argument_matches(interaction, events) > 0 THEN "argument_matching"
    ELSE IF temporal_matches(interaction, events) >= process_matches(interaction, events)
    THEN "temporal_proximity"
    ELSE "process_lineage"

\* MultiSignalCorrelator._determine_correlation_type
determine_correlation_type(interaction, events) ==
    IF argument_matches(interaction, events) > 0 THEN "argument_matching"
    ELSE IF temporal_matches(interaction, events) > process_matches(interaction, events)
    THEN "temporal_proximity"
    ELSE "process_lineage"

\* MultiSignalCorrelator._gather_correlation_evidence
gather_correlation_evidence(interaction, events) ==
    [llm_references  |-> interaction.extracted_references,
     time_window_ms  |-> temporal_window_ms,
     process_lineage |-> find_related_processes(processes, interaction.pid),
     event_details   |->
         [k \in 1..Len(events) |->
             LET event == system_events[events[k]]
             IN  [timestamp |-> Get(event, "timestamp", None),
                  source    |-> Get(event, "source", ""),
                  pid       |-> EventPid(event),
                  arguments |-> extract_event_arguments(event),
                  time_offset_ms |->
                      Rat(EventTimestamp(event) - interaction.response_timestamp,
                          NsPerMs)]]]

\* the CorrelatedEvent correlate_events builds for interaction i
CorrelatedEvent(i) ==
    LET interaction    == llm_interactions[i]
        related_events == find_related_system_events(interaction)
    IN  [llm_interaction   |-> i,
         system_actions    |-> related_events,
         correlation_score |->
             calculate_correlation_score(interaction, related_events),
         correlation_type  |->
             determine_correlation_type(interaction, related_events),
         evidence          |->
             gather_correlation_evidence(interaction, related_events)]

\* insert correlation x into a list sorted by score descending (stable)
RECURSIVE InsertByScore(_, _)
InsertByScore(sorted, x) ==
    IF sorted = <<>> THEN <<x>>
    ELSE IF RatLeq(x.correlation_score, sorted[Len(sorted)].correlation_score)
         THEN Append(sorted, x)
         ELSE Append(InsertByScore(SubSeq(sorted, 1, Len(sorted) - 1), x),
                     sorted[Len(sorted)])

\* mutant: the list is sorted by score descending before it is returned
RECURSIVE CorrelationsSortedByScore(_)
CorrelationsSortedByScore(i) ==
    IF i > Len(llm_interactions) THEN <<>>
    ELSE LET rest == CorrelationsSortedByScore(i + 1)
         IN  IF find_related_system_events(llm_interactions[i]) # <<>>
             THEN InsertByScore(rest, CorrelatedEvent(i))
             ELSE rest

\* mutant: a system event kept for an earlier interaction is no longer
\* available to the interactions after it
RECURSIVE CorrelationsFromClaimingEvents(_)
CorrelationsFromClaimingEvents(i) ==
    IF i > Len(llm_interactions) THEN <<>>
    ELSE LET claimed ==
                 UNION {Range(find_related_system_events(llm_interactions[j])) :
                           j \in 1..(i - 1)}
             free ==
                 SelectSeq(find_related_system_events(llm_interactions[i]),
                           LAMBDA e : e \notin claimed)
         IN  (IF free # <<>>
              THEN <<[CorrelatedEvent(i) EXCEPT !.system_actions = free]>>
              ELSE <<>>)
             \o CorrelationsFromClaimingEvents(i + 1)

\* the list correlate_events returns: interactions i..n in order, those
\* with related events only
RECURSIVE CorrelationsFrom(_)
CorrelationsFrom(i) ==
    IF i > Len(llm_interactions) THEN <<>>
    ELSE (IF find_related_system_events(llm_interactions[i]) # <<>>
          THEN <<CorrelatedEvent(i)>> ELSE <<>>)
         \o CorrelationsFrom(i + 1)

\* correlate_events raises: None + int (TypeError), the unbounded recursion
\* of add_children (RecursionError), time_diff / 0 (ZeroDivisionError)
CorrelateEventsRaises ==
    \E i \in 1..Len(llm_interactions) :
        LET interaction == llm_interactions[i]
        IN  \/ interaction.response_timestamp = None
            \/ RelatedDiverges(processes, interaction.pid)
            \/ /\ temporal_window_ns = 0
               /\ find_related_system_events(interaction) # <<>>

\* mutant: the new correlations are appended to self.correlations
CorrelateEventsAccumulates ==
    /\ pc # "error"
    /\ IF CorrelateEventsRaises
       THEN /\ pc' = "error"
            /\ UNCHANGED correlations
       ELSE /\ correlations' = correlations \o CorrelationsFrom(1)
            /\ pc' = "correlated"
    /\ UNCHANGED <<temporal_window_ms, processes, root_processes,
                   pending_requests, llm_interactions, system_events,
                   requests_seen>>

\* mutant: self.system_events is sorted by timestamp in place
CorrelateEventsSortsInPlace ==
    /\ pc # "error"
    /\ IF CorrelateEventsRaises
       THEN /\ pc' = "error"
            /\ UNCHANGED correlations
       ELSE /\ correlations' = CorrelationsFrom(1)
            /\ pc' = "correlated"
    /\ system_events' =
           [k \in 1..Len(system_events) |->
               system_events[SortByTimestamp(
                                 [j \in 1..Len(system_events) |-> j])[k]]]
    /\ UNCHANGED <<temporal_window_ms, processes, root_processes,
                   pending_requests, llm_interactions, requests_seen>>

\* MultiSignalCorrelator.correlate_events, as main() calls it after loading
CorrelateEvents ==
    /\ pc # "error"
    /\ IF CorrelateEventsRaises
       THEN /\ pc' = "error"
            /\ UNCHANGED correlations
       ELSE /\ correlations' = CorrelationsFrom(1)
            /\ pc' = "correlated"
    /\ UNCHANGED <<temporal_window_ms, processes, root_processes,
                   pending_requests, llm_interactions, system_events,
                   requests_seen>>

-----------------------------------------------------------------------------
(* The engine after MultiSignalCorrelator(temporal_window_ms = w) *)

\* no function of the engine has been called directly
NoCall == [fn |-> "none"]

Construct(w) ==
    /\ temporal_window_ms = w
    /\ processes = <<>>
    /\ root_processes = <<>>
    /\ pending_requests = <<>>
    /\ llm_interactions = <<>>
    /\ system_events = <<>>
    /\ correlations = <<>>
    /\ pc = "load"
    /\ requests_seen = 0
    /\ observed = <<>>
    /\ call = NoCall

-----------------------------------------------------------------------------
(* Trace records *)

Python == <<"p","y","t","h","o","n">>

\* a response body that is not JSON: json.loads raises JSONDecodeError
RawBody(text) == [text |-> text, json |-> [kind |-> "invalid"]]

HttpRequest(tid, pid, ts) ==
    [source |-> "http_parser", timestamp |-> ts,
     data |-> [message_type |-> "request", tid |-> tid, pid |-> pid,
               comm |-> Str(Python)]]

HttpResponse(tid, pid, ts, body) ==
    [source |-> "http_parser", timestamp |-> ts,
     data |-> [message_type |-> "response", tid |-> tid, pid |-> pid,
               comm |-> Str(Python), body |-> body]]

\* a process record without argument fields
ProcessEvent(pid, ppid, comm, ts) ==
    [source |-> "process", timestamp |-> ts,
     data |-> [pid |-> pid, ppid |-> ppid, comm |-> Str(comm)]]

\* a process record with an args list
ProcessEventArgs(pid, ppid, comm, ts, args) ==
    [source |-> "process", timestamp |-> ts,
     data |-> [pid |-> pid, ppid |-> ppid, comm |-> Str(comm),
               args |-> List(args)]]

\* a process record with a filename
ProcessEventFile(pid, ppid, comm, ts, filename) ==
    [source |-> "process", timestamp |-> ts,
     data |-> [pid |-> pid, ppid |-> ppid, comm |-> Str(comm),
               filename |-> Str(filename)]]

\* The sample trace: its window (ms) and its two response timestamps (ns)
Sample == [window_ms |-> 1, t0 |-> 2000, t1 |-> 2001]

T0 == Sample.t0

T1 == Sample.t1

W1 == Sample.window_ms * NsPerMs

RequestRecords == {HttpRequest(tid, 100, 1000) : tid \in {5, 7}}

ResponseRecords ==
    { HttpResponse(5, 100, T0, RawBody(RunCatTmpOutTxt)),
      HttpResponse(5, 100, T1, RawBody(Ok)),
      HttpResponse(7, 100, T1, RawBody(RunCatTmpOutTxt)) }

ProcessRecords ==
    { ProcessEvent(100, 1, Bash, T0),
      ProcessEventArgs(101, 100, Cat, T0 + 3 * W1, <<TmpOutTxt>>),
      ProcessEvent(999, 1, Cat, T0 + 1),
      ProcessEventFile(999, 1, Bash, T0 + W1 + 1, Tmp),
      ProcessEventArgs(999, 1, Bash, T0 - 1, <<Cat, TmpOutTxt>>) }

IgnoredRecords ==
    { [source |-> "ssl", timestamp |-> T0, data |-> [pid |-> 100]],
      [source |-> "http_parser", timestamp |-> T0,
       data |-> [message_type |-> "", tid |-> 5]] }

Init == Construct(Sample.window_ms)

Next ==
    \/ \E event \in RequestRecords :
          ProcessHttpRequest(event) /\ UNCHANGED <<observed, call>>
    \/ \E event \in ResponseRecords :
          ProcessHttpResponse(event) /\ UNCHANGED <<observed, call>>
    \/ \E event \in ProcessRecords :
          ProcessSystemEvent(event) /\ UNCHANGED <<observed, call>>
    \/ \E event \in IgnoredRecords : ProcessIgnoredEvent(event)
    \/ CorrelateEvents /\ UNCHANGED <<observed, call>>

Spec == Init /\ [][Next]_vars

-----------------------------------------------------------------------------
(* The scenario trace: tid 5 and 7, pid 100 and 999, the default window *)

Scenario == [request_ts |-> 1000, response_ts |-> 2000, event_ts |-> 2100,
             late_response_ts |-> 3000]

ScenarioRequests ==
    {HttpRequest(tid, 100, Scenario.request_ts) : tid \in {5, 7}}

ScenarioResponses ==
    { HttpResponse(5, 100, Scenario.response_ts, RawBody(TmpOutTxt)),
      HttpResponse(5, 100, Scenario.response_ts, RawBody(Ok)),
      HttpResponse(7, 100, Scenario.late_response_ts, RawBody(RunCatTmpOutTxt)) }

ScenarioProcessRecords ==
    { ProcessEventArgs(pid, 1, Bash, Scenario.event_ts, <<TmpOutTxt>>) :
          pid \in {100, 999} }

InitScenario == Construct(DefaultTemporalWindowMs)

NextScenario ==
    \/ \E event \in ScenarioRequests :
          ProcessHttpRequest(event) /\ UNCHANGED <<observed, call>>
    \/ \E event \in ScenarioResponses :
          ProcessHttpResponse(event) /\ UNCHANGED <<observed, call>>
    \/ \E event \in ScenarioProcessRecords :
          ProcessSystemEvent(event) /\ UNCHANGED <<observed, call>>
    \/ \E event \in IgnoredRecords : ProcessIgnoredEvent(event)
    \/ CorrelateEvents /\ UNCHANGED <<observed, call>>

SpecScenario == InitScenario /\ [][NextScenario]_vars

-----------------------------------------------------------------------------
(* Vocabulary of the properties *)

\* correlate_events has returned and nothing was ingested since
Correlated == pc = "correlated"

Interactions == 1..Len(llm_interactions)

Events == 1..Len(system_events)

Emitted == 1..Len(correlations)

\* the window W in nanoseconds: temporalWindowMs * 1,000,000
WindowNs == temporal_window_ms * 1000000

ResponseTs(i) == llm_interactions[i].response_timestamp

Ts(e) == system_events[e].timestamp

\* the system events listed in the correlation emitted for interaction i
SystemActions(i) ==
    UNION {Range(correlations[c].system_actions) :
              c \in {k \in Emitted : correlations[k].llm_interaction = i}}

\* temporal predicate: event timestamp in [T, T + W]
Temporal(i, e) == ResponseTs(i) <= Ts(e) /\ Ts(e) <= ResponseTs(i) + WindowNs

\* lineage predicate: event.pid in relatedProcesses(interaction.pid)
Lineage(i, e) ==
    system_events[e].data.pid
        \in find_related_processes(processes, llm_interactions[i].pid)

\* the argument strings of an event: args, filename, path, command, syscall
EventArguments(e) ==
    LET data == system_events[e].data
        Of(f) == IF f \notin DOMAIN data THEN <<>>
                 ELSE IF IsList(data[f]) THEN data[f].list
                 ELSE <<data[f].str>>
    IN  Of("args") \o Of("filename") \o Of("path") \o Of("command")
        \o Of("syscall")

\* argument predicate: matchScore(references, arguments) > 0.3
Argument(i, e) ==
    LET score == calculate_argument_match_score(
                     llm_interactions[i].extracted_references, EventArguments(e))
    IN  10 * score.n > 3 * score.d

\* C1: after correlate(), a system event is in an interaction's
\* systemActions if and only if the temporal, the lineage or the argument
\* predicate holds for it; any one of them suffices.
C1_InclusionIsUnionOfPredicates ==
    Correlated =>
        \A i \in Interactions : \A e \in Events :
            e \in SystemActions(i)
                <=> (Temporal(i, e) \/ Lineage(i, e) \/ Argument(i, e))

\* an event of an unrelated pid, outside the window, included by the
\* argument predicate alone, next to an event that is excluded
C1_Witness ==
    /\ Correlated
    /\ \E i \in Interactions : \E e, x \in Events :
          /\ e \in SystemActions(i)
          /\ Argument(i, e) /\ ~Temporal(i, e) /\ ~Lineage(i, e)
          /\ x \notin SystemActions(i)

\* C2: with neither lineage nor argument, an event at T + W + 1 is
\* excluded and one at T + 1 is included; events at exactly T and exactly
\* T + W are included (closed window); an event below T is excluded.
C2_WindowIsClosedInterval ==
    Correlated =>
        \A i \in Interactions : \A e \in Events :
            (~Lineage(i, e) /\ ~Argument(i, e)) =>
                /\ Ts(e) = ResponseTs(i) + WindowNs + 1 => e \notin SystemActions(i)
                /\ Ts(e) = ResponseTs(i) + 1 => e \in SystemActions(i)
                /\ Ts(e) = ResponseTs(i) => e \in SystemActions(i)
                /\ Ts(e) = ResponseTs(i) + WindowNs => e \in SystemActions(i)
                /\ Ts(e) < ResponseTs(i) => e \notin SystemActions(i)

\* one interaction with a temporal-only event at T + 1 included and an
\* event at T + W + 1 excluded; another with an event exactly at T + W
C2_Witness ==
    /\ Correlated
    /\ \E i \in Interactions : \E e, x \in Events :
          /\ ~Lineage(i, e) /\ ~Argument(i, e) /\ ~Lineage(i, x) /\ ~Argument(i, x)
          /\ Ts(e) = ResponseTs(i) + 1 /\ e \in SystemActions(i)
          /\ Ts(x) = ResponseTs(i) + WindowNs + 1 /\ x \notin SystemActions(i)
    /\ \E i \in Interactions : \E e \in Events :
          /\ ~Lineage(i, e) /\ ~Argument(i, e)
          /\ Ts(e) = ResponseTs(i) + WindowNs /\ e \in SystemActions(i)

\* C3: every emitted CorrelatedEvent has its score in [0, 1].
C3_ScoreInUnitInterval ==
    Correlated =>
        \A c \in Emitted :
            LET score == correlations[c].correlation_score
            IN  score.d > 0 /\ 0 <= score.n /\ score.n <= score.d

\* a correlation that includes an event before the response and an event
\* more than a window after it
C3_Witness ==
    /\ Correlated
    /\ \E c \in Emitted : \E e, x \in Range(correlations[c].system_actions) :
          /\ Ts(e) < ResponseTs(correlations[c].llm_interaction)
          /\ Ts(x) > ResponseTs(correlations[c].llm_interaction) + 2 * WindowNs

TypeOf(c) == correlations[c].correlation_type

\* how many events of correlation c satisfy the predicate a type names
CountOfType(c, type) ==
    Cardinality({e \in Range(correlations[c].system_actions) :
        CASE type = "argument_matching"  -> Argument(correlations[c].llm_interaction, e)
          [] type = "temporal_proximity" -> Temporal(correlations[c].llm_interaction, e)
          [] type = "process_lineage"    -> Lineage(correlations[c].llm_interaction, e)})

CorrelationTypes ==
    {"argument_matching", "temporal_proximity", "process_lineage"}

\* C4 as stated: the type names a predicate with the largest count of
\* included events.
C4_TypeNamesLargestCount ==
    Correlated =>
        \A c \in Emitted : \A other \in CorrelationTypes :
            CountOfType(c, TypeOf(c)) >= CountOfType(c, other)

\* C4 amended: the type is argument_matching exactly when at least one
\* included event satisfies the argument predicate (however many temporal
\* or lineage matches there are); a type of temporal_proximity or
\* process_lineage names a predicate with the largest count.
C4_ArgumentFirstThenLargestCount ==
    Correlated =>
        \A c \in Emitted :
            /\ TypeOf(c) \in CorrelationTypes
            /\ TypeOf(c) = "argument_matching"
                  <=> CountOfType(c, "argument_matching") > 0
            /\ TypeOf(c) # "argument_matching" =>
                  \A other \in CorrelationTypes :
                      CountOfType(c, TypeOf(c)) >= CountOfType(c, other)

\* argument_matching reported although lineage matches outnumber the
\* argument matches
C4_Witness ==
    /\ Correlated
    /\ \E c \in Emitted :
          /\ TypeOf(c) = "argument_matching"
          /\ CountOfType(c, "process_lineage") > CountOfType(c, "argument_matching")

\* the predicates whose count is the largest of the three
Tied(c) ==
    {t \in CorrelationTypes :
        \A other \in CorrelationTypes : CountOfType(c, t) >= CountOfType(c, other)}

\* argument_matching > temporal_proximity > process_lineage
HighestPriority(types) ==
    IF "argument_matching" \in types THEN "argument_matching"
    ELSE IF "temporal_proximity" \in types THEN "temporal_proximity"
    ELSE "process_lineage"

\* C5 as stated: when two or more predicates tie for the largest count,
\* the type is the highest-priority one among those tied.
C5_TieGoesToHighestPriority ==
    Correlated =>
        \A c \in Emitted :
            Cardinality(Tied(c)) >= 2 => TypeOf(c) = HighestPriority(Tied(c))

\* C5 amended: a tie for the largest count that involves the argument
\* predicate goes to argument_matching; when the temporal and the lineage
\* count are equal and both exceed the argument count, the type is
\* process_lineage if no included event satisfies the argument predicate,
\* and argument_matching otherwise.
C5_TieGoesToArgumentThenLineage ==
    Correlated =>
        \A c \in Emitted :
            /\ (Cardinality(Tied(c)) >= 2 /\ "argument_matching" \in Tied(c))
                  => TypeOf(c) = "argument_matching"
            /\ Tied(c) = {"temporal_proximity", "process_lineage"}
                  => TypeOf(c) = IF CountOfType(c, "argument_matching") = 0
                                 THEN "process_lineage"
                                 ELSE "argument_matching"

\* a correlation whose temporal and lineage counts tie above the argument
\* count
C5_Witness ==
    /\ Correlated
    /\ \E c \in Emitted :
          /\ Tied(c) = {"temporal_proximity", "process_lineage"}
          /\ TypeOf(c) = "process_lineage"

Score(c) == correlations[c].correlation_score

\* x < y for the rationals x, y
Below(x, y) == RatLess(x, y)

\* C6 as stated: the returned sequence is ordered by score descending,
\* equal scores in the order their interactions were created.
C6_OrderedByScoreDescending ==
    Correlated =>
        \A c, k \in Emitted :
            c < k =>
                /\ ~Below(Score(c), Score(k))
                /\ Score(c) = Score(k) =>
                      correlations[c].llm_interaction < correlations[k].llm_interaction

\* C6 amended: the returned sequence is in the order the interactions
\* were created (discovery order), whatever the scores.
C6_OrderedByInteraction ==
    Correlated =>
        \A c, k \in Emitted :
            c < k => correlations[c].llm_interaction < correlations[k].llm_interaction

\* two correlations are returned, the first with the lower score
C6_Witness ==
    /\ Correlated
    /\ \E c, k \in Emitted : c < k /\ Below(Score(c), Score(k))

\* the interaction of correlation c and the number of its references
InteractionOf(c) == correlations[c].llm_interaction

\* lineageIndicator: 1 iff event.pid is in relatedProcesses(interaction.pid)
LineageIndicator(i, e) == IF Lineage(i, e) THEN 1 ELSE 0

\* W * temporalProximity.  "linear", as stated: 1 - (t - T) / W clipped to
\* [0, 1].  "distance": 1 - |t - T| / W clipped below at 0.
DecayNs(decay, i, e) ==
    LET left == IF decay = "linear"
                THEN WindowNs - (Ts(e) - ResponseTs(i))
                ELSE WindowNs - Abs(Ts(e) - ResponseTs(i))
    IN  IF left < 0 THEN 0 ELSE IF left > WindowNs THEN WindowNs ELSE left

\* the argument strings the scoring step extracts for an event, as the
\* evidence of correlation c lists them at position k
ScoredArguments(c, k) == correlations[c].evidence.event_details[k].arguments

\* the weighted score of the k-th event of correlation c:
\* 0.3 * (decay / W) + 0.3 * lineageIndicator + 0.4 * argumentScore
WeightedScore(c, k, decay) ==
    LET i   == InteractionOf(c)
        e   == correlations[c].system_actions[k]
        arg == calculate_argument_match_score(
                   llm_interactions[i].extracted_references, ScoredArguments(c, k))
    IN  RatAdd(RatAdd(Rat(3 * DecayNs(decay, i, e), 10 * WindowNs),
                      Rat(3 * LineageIndicator(i, e), 10)),
               RatMul(Rat(4, 10), arg))

\* the arithmetic mean of the weighted scores of the events of c
MeanWeightedScore(c, decay) ==
    LET n == Len(correlations[c].system_actions)
    IN  RatMul(RatSum([k \in 1..n |-> WeightedScore(c, k, decay)]), Rat(1, n))

\* C7 as stated: the score is the mean over the included events of
\* 0.3 * temporalProximity + 0.3 * lineageIndicator + 0.4 * argumentScore,
\* temporalProximity decaying linearly from 1 at T to 0 at T + W, clipped
\* to [0, 1].
C7_ScoreIsMeanOfLinearDecay ==
    Correlated =>
        \A c \in Emitted : Score(c) = MeanWeightedScore(c, "linear")

\* C7 amended: the same weighted mean with temporalProximity
\* max(0, 1 - |t - T| / W): 1 at T, decaying linearly to 0 at distance W
\* on either side of the response timestamp.
C7_ScoreIsMeanOfDistanceDecay ==
    Correlated =>
        \A c \in Emitted : Score(c) = MeanWeightedScore(c, "distance")

\* a correlation with two events, one of them before the response and
\* closer to it than the window
C7_Witness ==
    /\ Correlated
    /\ \E c \in Emitted :
          /\ Len(correlations[c].system_actions) = 2
          /\ \E e \in Range(correlations[c].system_actions) :
                /\ Ts(e) < ResponseTs(InteractionOf(c))
                /\ Ts(e) > ResponseTs(InteractionOf(c)) - WindowNs

\* C8: the argument strings of an event come from args, filename, path,
\* command and syscall, and for every included event the argumentScore the
\* scoring uses is above 0.3 exactly when the argument predicate held.
C8_SameArgumentsForInclusionAndScoring ==
    Correlated =>
        \A c \in Emitted : \A k \in 1..Len(correlations[c].system_actions) :
            LET i == InteractionOf(c)
                e == correlations[c].system_actions[k]
            IN  /\ ScoredArguments(c, k) = EventArguments(e)
                /\ RatLess(Rat(3, 10),
                           argument_score(llm_interactions[i], system_events[e]))
                       <=> Argument(i, e)

\* C10: an interaction is created only by a step that takes a pending
\* request of some tid out of the pending map and appends one interaction
\* of that tid built from it, with no request stored and no system event
\* added by the step; and the interactions never outnumber the requests.
C10_InteractionOnlyFromPendingResponse ==
    /\ [](Len(llm_interactions) <= requests_seen)
    /\ [][llm_interactions' # llm_interactions =>
            /\ requests_seen' = requests_seen
            /\ system_events' = system_events
            /\ processes' = processes
            /\ \E tid \in DOMAIN pending_requests :
                  /\ tid \notin DOMAIN pending_requests'
                  /\ Len(llm_interactions') = Len(llm_interactions) + 1
                  /\ SubSeq(llm_interactions', 1, Len(llm_interactions))
                         = llm_interactions
                  /\ llm_interactions'[Len(llm_interactions')].tid = tid
                  /\ llm_interactions'[Len(llm_interactions')].request_data
                         = pending_requests[tid].data
         ]_vars

\* two interactions exist, a request is still pending, and system events
\* were ingested
C10_Witness ==
    /\ Len(llm_interactions) = 2
    /\ requests_seen = 2
    /\ system_events # <<>>
    /\ llm_interactions[1].tid # llm_interactions[2].tid

\* request(tid=5, pid=100, ts=1000), response(tid=5, pid=100, ts=2000, body
\* with /tmp/out.txt) and process event(pid=100, ts=2100,
\* args=[/tmp/out.txt]) are what was ingested, under a 500 ms window
ScenarioAIngested ==
    /\ temporal_window_ms = 500
    /\ requests_seen = 1
    /\ Len(llm_interactions) = 1
    /\ llm_interactions[1].tid = 5
    /\ llm_interactions[1].pid = 100
    /\ llm_interactions[1].request_timestamp = 1000
    /\ llm_interactions[1].response_timestamp = 2000
    /\ IsSubstring(TmpOutTxt, llm_interactions[1].response_data.body.text)
    /\ Len(system_events) = 1
    /\ system_events[1].timestamp = 2100
    /\ system_events[1].data.pid = 100
    /\ system_events[1].data.args = List(<<TmpOutTxt>>)

\* C9 (Scenario A): correlate() returns exactly one correlation, of type
\* argument_matching, that includes the process event; the event satisfies
\* all three predicates and its lineage indicator is 1 (pid 100 is listed
\* as related, and the score exceeds the 0.7 that the temporal and the
\* argument term can reach together).
C9_ScenarioA ==
    (Correlated /\ ScenarioAIngested) =>
        /\ Len(correlations) = 1
        /\ correlations[1].llm_interaction = 1
        /\ correlations[1].correlation_type = "argument_matching"
        /\ correlations[1].system_actions = <<1>>
        /\ Temporal(1, 1) /\ Lineage(1, 1) /\ Argument(1, 1)
        /\ 100 \in correlations[1].evidence.process_lineage
        /\ RatLess(Rat(7, 10), correlations[1].correlation_score)

\* the scenario has been ingested and correlated
C9_Witness ==
    /\ Correlated
    /\ ScenarioAIngested
    /\ Len(correlations) = 1

-----------------------------------------------------------------------------
(* Pairing of requests and responses: a trace of http_parser records whose *)
(* timestamps are not monotone, with repeated requests and responses on a  *)
(* tid, observed record by record.                                         *)

Pairing == [first_request_ts |-> 1000, second_request_ts |-> 1500,
            response_ts |-> 2000, early_response_ts |-> 500,
            unmatched_response_ts |-> 3000]

\* a response body that is a JSON number: json.loads yields an int
NumberBody == [text |-> <<"4","2">>, json |-> [kind |-> "number"]]

PairingRequests ==
    { HttpRequest(5, 100, Pairing.first_request_ts),
      HttpRequest(5, 101, Pairing.second_request_ts),
      HttpRequest(7, 100, Pairing.first_request_ts) }

PairingResponses ==
    { HttpResponse(5, 100, Pairing.response_ts, RawBody(Ok)),
      HttpResponse(5, 100, Pairing.early_response_ts, RawBody(Ok)),
      HttpResponse(7, 100, Pairing.unmatched_response_ts, NumberBody) }

\* load_trace_data hands a request record to _process_event
ObserveRequest(event) ==
    /\ Len(observed) < MaxObserved
    /\ ProcessHttpRequest(event)
    /\ observed' = Append(observed, event)
    /\ UNCHANGED call

\* load_trace_data hands a response record to _process_event
ObserveResponse(event) ==
    /\ Len(observed) < MaxObserved
    /\ ProcessHttpResponse(event)
    /\ observed' = Append(observed, event)
    /\ UNCHANGED call

InitPairing == Construct(DefaultTemporalWindowMs)

NextPairing ==
    \/ \E event \in PairingRequests : ObserveRequest(event)
    \/ \E event \in PairingResponses : ObserveResponse(event)

SpecPairing == InitPairing /\ [][NextPairing]_vars

\* the tid of an http_parser record
Tid(event) == event.data.tid

IsRequest(event) == event.data.message_type = "request"

IsResponse(event) == event.data.message_type = "response"

\* the step hands the response record `event` to the engine
ResponseStep(event) == IsResponse(event) /\ observed' = Append(observed, event)

\* the positions of the observed records of a tid
PositionsOn(tid) == {k \in 1..Len(observed) : Tid(observed[k]) = tid}

\* the positions of the observed request records of a tid
RequestsOn(tid) == {k \in PositionsOn(tid) : IsRequest(observed[k])}

\* C11: every interaction held by the engine has
\* responseTimestamp >= requestTimestamp, whatever the order of the record
\* timestamps in the stream.
C11_ResponseNotBeforeRequest ==
    \A i \in 1..Len(llm_interactions) :
        llm_interactions[i].response_timestamp
            >= llm_interactions[i].request_timestamp

\* the step hands the engine a response record whose tid has no pending
\* request
DroppedResponseStep ==
    \E event \in PairingResponses :
        ResponseStep(event) /\ Tid(event) \notin DOMAIN pending_requests

\* the step creates no interaction, leaves the pending map, the process
\* tree and the system events as they are, and does not abort ingestion
DropsQuietly ==
    /\ llm_interactions' = llm_interactions
    /\ pending_requests' = pending_requests
    /\ processes' = processes
    /\ root_processes' = root_processes
    /\ system_events' = system_events
    /\ pc' = pc

\* some count the engine holds goes up by exactly one in the step
SomeEngineCountIncrements ==
    \/ Len(llm_interactions') = Len(llm_interactions) + 1
    \/ Len(system_events') = Len(system_events) + 1
    \/ Len(correlations') = Len(correlations) + 1
    \/ Len(root_processes') = Len(root_processes) + 1
    \/ Cardinality(DOMAIN pending_requests')
           = Cardinality(DOMAIN pending_requests) + 1
    \/ Cardinality(DOMAIN processes') = Cardinality(DOMAIN processes) + 1

Last(seq) == seq[Len(seq)]

\* the step appends one interaction
InteractionStep ==
    /\ Len(llm_interactions') = Len(llm_interactions) + 1
    /\ SubSeq(llm_interactions', 1, Len(llm_interactions)) = llm_interactions

\* interaction `interaction` carries the timestamp and payload of `request`
Carries(interaction, request) ==
    /\ interaction.request_timestamp = request.timestamp
    /\ interaction.request_data = request.data

\* the request at position j is followed on its tid by a response before
\* any other record of that tid
AnsweredFirst(j) ==
    \E k \in (j + 1)..Len(observed) :
        /\ IsResponse(observed[k])
        /\ Tid(observed[k]) = Tid(observed[j])
        /\ \A m \in (j + 1)..(k - 1) : Tid(observed[m]) # Tid(observed[j])

\* C13 (last-request-wins): the interaction a response emits carries the
\* timestamp and payload of the most recently ingested request of its tid,
\* and every interaction carries a request that was answered before another
\* request of its tid arrived: an overwritten request is in no interaction.
C13_LastRequestWins ==
    /\ [](\A i \in 1..Len(llm_interactions) :
              \E j \in RequestsOn(llm_interactions[i].tid) :
                  /\ Carries(llm_interactions[i], observed[j])
                  /\ AnsweredFirst(j))
    /\ [][InteractionStep =>
              LET new == Last(llm_interactions')
              IN  /\ RequestsOn(new.tid) # {}
                  /\ Carries(new, observed[Max(RequestsOn(new.tid))])]_vars

\* two requests on tid 5 were ingested before a response on tid 5: one
\* interaction, carrying the second request
C13_Witness ==
    /\ Len(observed) = 3
    /\ observed[1] = HttpRequest(5, 100, Pairing.first_request_ts)
    /\ observed[2] = HttpRequest(5, 101, Pairing.second_request_ts)
    /\ IsResponse(observed[3]) /\ Tid(observed[3]) = 5
    /\ Len(llm_interactions) = 1
    /\ llm_interactions[1].request_timestamp = Pairing.second_request_ts
    /\ llm_interactions[1].request_data.pid = 101

\* the interactions of a tid
InteractionsOn(tid) ==
    {i \in 1..Len(llm_interactions) : llm_interactions[i].tid = tid}

\* the last observed record of the tid is a response: no request of that
\* tid has arrived since
LastOnTidIsResponse(tid) ==
    /\ PositionsOn(tid) # {}
    /\ IsResponse(observed[Max(PositionsOn(tid))])

\* C14: a matched response clears the pending slot of its tid; a response
\* on a tid whose last record was a response creates no interaction; and
\* the interactions of a tid never outnumber the requests of that tid that
\* were answered (each request is paired into at most one interaction).
C14_MatchedResponseClearsPending ==
    /\ [](\A tid \in {Tid(event) : event \in PairingRequests} :
              Cardinality(InteractionsOn(tid))
                  <= Cardinality({j \in RequestsOn(tid) : AnsweredFirst(j)}))
    /\ [][/\ InteractionStep =>
                 Last(llm_interactions').tid \notin DOMAIN pending_requests'
           /\ \A event \in PairingResponses :
                 (ResponseStep(event) /\ LastOnTidIsResponse(Tid(event)))
                     => llm_interactions' = llm_interactions]_vars

\* request, response and a second response on tid 5: one interaction, and
\* the slot of tid 5 is free
C14_Witness ==
    /\ Len(observed) = 3
    /\ IsRequest(observed[1]) /\ Tid(observed[1]) = 5
    /\ IsResponse(observed[2]) /\ Tid(observed[2]) = 5
    /\ IsResponse(observed[3]) /\ Tid(observed[3]) = 5
    /\ Len(llm_interactions) = 1
    /\ 5 \notin DOMAIN pending_requests

-----------------------------------------------------------------------------
(* Process tree: every trace of at most MaxTreeEvents process records over  *)
(* three pids, each naming no parent, pid 10 or pid 20 as its parent (its   *)
(* own pid included).  system_events is the history of the records.         *)

\* the first timestamp (ns) of the process records
Tree == [t0 |-> 1000]

TreePids == {10, 20, 30}

TreeParents == {0, 10, 20}

\* records of one pid with different ppid differ in comm and timestamp too
TreeComm(ppid) ==
    CASE ppid = 0  -> <<"s","h">>
      [] ppid = 10 -> <<"c","a","t">>
      [] OTHER     -> <<"l","s">>

TreeRecords ==
    {ProcessEvent(pid, ppid, TreeComm(ppid), Tree.t0 + pid + ppid) :
        pid \in TreePids, ppid \in TreeParents}

InitTree == Construct(DefaultTemporalWindowMs)

NextTree ==
    \E event \in TreeRecords :
        ProcessSystemEventWithin(event, MaxTreeEvents) /\ UNCHANGED <<observed, call>>

SpecTree == InitTree /\ [][NextTree]_vars

\* the process record the step ingests
TreeStep(event) ==
    /\ system_events' = Append(system_events, event)
    /\ event \in TreeRecords

\* the record's pid and ppid
Pid(event) == event.data.pid

Ppid(event) == event.data.ppid

\* the positions of the records of a pid in the history
RecordsOf(pid) ==
    {i \in 1..Len(system_events) : Pid(system_events[i]) = pid}

\* the first record seen for a pid
FirstRecordOf(pid) == system_events[Min(RecordsOf(pid))]

\* C15: the process map holds exactly one node for each pid seen, under its
\* own pid, and the node's pid, ppid, comm and start_time are those of the
\* first record seen for that pid, whatever later records of the pid say.
C15_NodeKeepsFirstEventFields ==
    /\ DOMAIN processes = {Pid(system_events[i]) : i \in 1..Len(system_events)}
    /\ \A pid \in DOMAIN processes :
          LET node  == processes[pid]
              first == FirstRecordOf(pid)
          IN  /\ node.pid = pid
              /\ node.ppid = Ppid(first)
              /\ node.comm = first.data.comm
              /\ node.start_time = first.timestamp

\* pid 30 is seen with ppid 0 and then with ppid 10 (another comm and
\* timestamp): its node still says ppid 0
C15_Witness ==
    /\ Len(system_events) = 3
    /\ Pid(system_events[1]) = 10
    /\ Pid(system_events[2]) = 30 /\ Ppid(system_events[2]) = 0
    /\ Pid(system_events[3]) = 30 /\ Ppid(system_events[3]) = 10
    /\ system_events[2].data.comm # system_events[3].data.comm
    /\ system_events[2].timestamp # system_events[3].timestamp
    /\ processes[30].ppid = 0
    /\ processes[30].parent = 10

\* the nodes whose child list holds pid
ParentsListing(procs, pid) ==
    {q \in DOMAIN procs : pid \in Range(procs[q].children)}

\* C16: once a node has a parent link, no process event changes the link
\* or adds the node to another node's child list.
C16_ParentLinkSetOnlyWhileUnset ==
    [][\A pid \in DOMAIN processes :
          processes[pid].parent # None =>
              /\ processes'[pid].parent = processes[pid].parent
              /\ ParentsListing(processes', pid)
                     = ParentsListing(processes, pid)]_vars

\* a returned lineage is root-to-leaf: no pid twice, the first node has no
\* parent, each node is the parent of the next, the last node is that of pid
RootToLeaf(procs, lineage, pid) ==
    /\ lineage # <<>>
    /\ \A i, j \in 1..Len(lineage) : lineage[i] = lineage[j] => i = j
    /\ procs[lineage[1]].parent = None
    /\ \A i \in 1..(Len(lineage) - 1) :
          procs[lineage[i + 1]].parent = lineage[i]
    /\ lineage[Len(lineage)] = pid

\* C17: in every tree a sequence of process events can build, the lineage
\* of every known pid is returned, acyclic and ordered root to leaf.
C17_LineageAcyclicRootToLeaf ==
    \A pid \in DOMAIN processes :
        /\ find_process_lineage(processes, pid).returns
        /\ RootToLeaf(processes,
                      find_process_lineage(processes, pid).lineage, pid)

\* no element occurs twice in the list
NoDuplicates(lst) == \A i, j \in 1..Len(lst) : lst[i] = lst[j] => i = j

\* C18: ingesting the process record that was ingested last once more
\* leaves the process map (every node's parent link and child list) and
\* the root list as they were; no child list and no root list ever holds an
\* entry twice.
C18_RecordProcessEventIdempotent ==
    /\ [](/\ NoDuplicates(root_processes)
          /\ \A pid \in DOMAIN processes :
                NoDuplicates(processes[pid].children))
    /\ [][\A event \in TreeRecords :
              (/\ TreeStep(event)
               /\ system_events # <<>>
               /\ Last(system_events) = event)
                  => /\ processes' = processes
                     /\ root_processes' = root_processes]_vars

\* the record (pid 20, ppid 10) twice in a row after (pid 10, ppid 0):
\* node 10 lists its child once
C18_Witness ==
    /\ Len(system_events) = 3
    /\ Pid(system_events[1]) = 10 /\ Ppid(system_events[1]) = 0
    /\ Pid(system_events[2]) = 20 /\ Ppid(system_events[2]) = 10
    /\ system_events[3] = system_events[2]
    /\ processes[10].children = <<20>>
    /\ processes[20].parent = 10
    /\ root_processes = <<10>>

\* the step creates the node of the record's pid
CreatesNode(event) ==
    /\ TreeStep(event)
    /\ Pid(event) \notin DOMAIN processes

\* C19: a record whose ppid (another pid) has no node yet creates its node
\* as a root without a parent link; and the step that later creates the
\* node of that ppid leaves every parentless node that named it without a
\* parent link and outside the new node's child list.
C19_OrphanIsNotReattached ==
    [][\A event \in TreeRecords :
          CreatesNode(event) =>
              /\ (/\ Ppid(event) > 0
                  /\ Ppid(event) # Pid(event)
                  /\ Ppid(event) \notin DOMAIN processes)
                     => /\ processes'[Pid(event)].parent = None
                        /\ Pid(event) \in Range(root_processes')
              /\ \A c \in DOMAIN processes :
                    (processes[c].ppid = Pid(event) /\ processes[c].parent = None)
                        => /\ processes'[c].parent = None
                           /\ c \notin Range(processes'[Pid(event)].children)]_vars

\* pid 20 arrives naming the unknown pid 10, then the record of pid 10
\* arrives: 20 has no parent, 10 has no child, both are roots
C19_Witness ==
    /\ Len(system_events) = 2
    /\ Pid(system_events[1]) = 20 /\ Ppid(system_events[1]) = 10
    /\ Pid(system_events[2]) = 10 /\ Ppid(system_events[2]) = 0
    /\ processes[20].parent = None
    /\ processes[10].children = <<>>
    /\ root_processes = <<20, 10>>

\* C20: in every reachable state a node with a parent link is not in the
\* root list and a node without a parent link is in it.
C20_RootsAreTheParentlessNodes ==
    \A pid \in DOMAIN processes :
        (processes[pid].parent = None) <=> (pid \in Range(root_processes))

-----------------------------------------------------------------------------
(* Related processes *)

\* find_related_processes(pid) returns a set that holds pid
RelatedHoldsSelf(procs, pid) ==
    /\ ~RelatedDiverges(procs, pid)
    /\ pid \in find_related_processes(procs, pid)

\* C21: the related set of every pid holds the pid itself, the pid of an
\* interaction without a process node included.
C21_RelatedContainsSelf ==
    /\ \A pid \in DOMAIN processes : RelatedHoldsSelf(processes, pid)
    /\ \A i \in Interactions :
          RelatedHoldsSelf(processes, llm_interactions[i].pid)

\* a and b are in the child list of one node
Siblings(procs, a, b) ==
    \E q \in DOMAIN procs :
        a \in Range(procs[q].children) /\ b \in Range(procs[q].children)

\* find_related_processes(b) returns a set that holds a
RelatedHolds(procs, b, a) ==
    /\ ~RelatedDiverges(procs, b)
    /\ a \in find_related_processes(procs, b)

\* C22: in every reachable tree, two pids in the child list of the same
\* node are in each other's related set.
C22_SiblingsAreRelatedBothWays ==
    \A a, b \in DOMAIN processes :
        Siblings(processes, a, b) =>
            RelatedHolds(processes, b, a) /\ RelatedHolds(processes, a, b)

\* the pids reached from the pids of S by n or fewer further child-list steps
RECURSIVE ReachedByChildLists(_, _, _)
ReachedByChildLists(procs, S, n) ==
    IF n = 0 THEN S
    ELSE S \cup ReachedByChildLists(
                   procs, {q \in DOMAIN procs : ParentsListing(procs, q) \cap S # {}},
                   n - 1)

\* the transitive descendants of pid
TransitiveDescendants(procs, pid) ==
    ReachedByChildLists(procs, Range(procs[pid].children),
                        Cardinality(DOMAIN procs))

\* the direct parent of pid, if it has one
DirectParent(procs, pid) ==
    IF procs[pid].parent = None THEN {} ELSE {procs[pid].parent}

\* the children of the direct parent of pid
ChildrenOfParent(procs, pid) ==
    UNION {Range(procs[q].children) : q \in DirectParent(procs, pid)}

\* C23: for every pid with a node, find_related_processes returns exactly
\* the pid, its direct parent, its transitive descendants and the children
\* of its direct parent.
C23_RelatedIsSelfParentDescendantsSiblings ==
    \A pid \in DOMAIN processes :
        /\ ~RelatedDiverges(processes, pid)
        /\ find_related_processes(processes, pid)
               = {pid} \cup DirectParent(processes, pid)
                       \cup TransitiveDescendants(processes, pid)
                       \cup ChildrenOfParent(processes, pid)

-----------------------------------------------------------------------------
(* Record shapes: responses whose body is a JSON number or a JSON list,    *)
(* a response without a timestamp, process records without comm or         *)
(* without a timestamp.                                                    *)

Shapes == [request_ts |-> 1000, response_ts |-> 2000, event_ts |-> 2100]

\* a body that decodes to a JSON list: no key test matches, str(json_body)
ListBody ==
    [text |-> <<"[","1","]">>,
     json |-> [kind |-> "list", repr |-> <<"[","1","]">>]]

ShapeRequests == {HttpRequest(tid, 100, Shapes.request_ts) : tid \in {5, 7}}

ShapeResponses ==
    { HttpResponse(5, 100, Shapes.response_ts, RawBody(Ok)),
      HttpResponse(5, 100, Shapes.response_ts, ListBody),
      HttpResponse(7, 100, Shapes.response_ts, NumberBody),
      [source |-> "http_parser",
       data |-> [message_type |-> "response", tid |-> 7, pid |-> 100,
                 comm |-> Str(Python), body |-> RawBody(Ok)]] }

ShapeProcessRecords ==
    { ProcessEvent(100, 1, Bash, Shapes.event_ts),
      [source |-> "process", timestamp |-> Shapes.event_ts,
       data |-> [pid |-> 100]],
      [source |-> "process",
       data |-> [pid |-> 101, ppid |-> 100, comm |-> Str(Cat)]] }

InitShapes == Construct(DefaultTemporalWindowMs)

NextShapes ==
    \/ \E event \in ShapeRequests : ObserveRequest(event)
    \/ \E event \in ShapeResponses : ObserveResponse(event)
    \/ \E event \in ShapeProcessRecords :
          ProcessSystemEvent(event) /\ UNCHANGED <<observed, call>>
    \/ CorrelateEvents /\ UNCHANGED <<observed, call>>

SpecShapes == InitShapes /\ [][NextShapes]_vars

\* a call of correlate_events: no record is ingested, the call returns or
\* raises
CorrelateStep ==
    /\ UNCHANGED <<observed, system_events>>
    /\ pc' \in {"correlated", "error"}

\* the interactions for which a correlation is emitted
EmittedFor == {correlations[c].llm_interaction : c \in Emitted}

\* C24: correlate_events emits a correlation for an interaction exactly if
\* it keeps at least one system event for it, so every emitted correlation
\* lists at least one system action; and with no system event or no
\* interaction the call returns the empty list and raises nothing.
C24_EmittedIffSomeEventIncluded ==
    /\ [](Correlated =>
              /\ \A c \in Emitted : correlations[c].system_actions # <<>>
              /\ \A i \in Interactions :
                    i \in EmittedFor <=>
                        \E e \in Events :
                            IsRelatedEvent(llm_interactions[i], system_events[e]))
    /\ [][(CorrelateStep /\ (system_events = <<>> \/ llm_interactions = <<>>))
              => (pc' = "correlated" /\ correlations' = <<>>)]_vars

\* C29: no record shape that reaches the engine makes ingestion or the
\* following correlate_events raise: the run never ends in an error.
C29_NoRecordAbortsTheRun == pc # "error"

-----------------------------------------------------------------------------
(* correlate_events as a function of the ingested state *)

\* a call of correlate_events that follows a call that returned, with no
\* record ingested in between
RepeatedCorrelateCall == pc = "correlated" /\ pc' = "correlated"

\* C25: a correlate_events call that follows another one without any
\* ingestion returns the same list: the same correlations (interaction,
\* system actions in order, score, type, evidence) in the same order.
C25_RepeatedCorrelateReturnsTheSame ==
    [][RepeatedCorrelateCall => correlations' = correlations]_vars

\* correlate_events has returned two correlations with different scores;
\* nothing can be ingested any more, the call can be repeated
C25_Witness ==
    /\ Correlated
    /\ Len(correlations) = 2
    /\ correlations[1].correlation_score # correlations[2].correlation_score

\* a call of correlate_events that returns
CorrelateCallReturns == pc' = "correlated"

\* C26: correlate_events leaves the process map (with the nodes' parent
\* and child links), the root list, the interactions (with their
\* references), the pending requests and the system-event list (content
\* and order) as they were.
C26_CorrelateIsReadOnly ==
    [][CorrelateCallReturns =>
          UNCHANGED <<processes, root_processes, llm_interactions,
                      pending_requests, system_events>>]_vars

\* the system events were ingested against their timestamp order, the
\* correlation lists them by timestamp, the event list kept its order
C26_Witness ==
    /\ Correlated
    /\ Len(system_events) = 2
    /\ EventTimestamp(system_events[1]) > EventTimestamp(system_events[2])
    /\ Len(correlations) >= 1
    /\ correlations[1].system_actions = <<2, 1>>

\* what the loop body of correlate_events computes from one interaction,
\* the process tree and the system-event list alone
ComputedAlone(interaction) ==
    [system_actions    |-> find_related_system_events(interaction),
     correlation_score |->
         calculate_correlation_score(
             interaction, find_related_system_events(interaction)),
     correlation_type  |->
         determine_correlation_type(
             interaction, find_related_system_events(interaction)),
     evidence          |->
         gather_correlation_evidence(
             interaction, find_related_system_events(interaction))]

\* the correlation emitted at position c, without its interaction
ResultOf(c) ==
    [system_actions    |-> correlations[c].system_actions,
     correlation_score |-> correlations[c].correlation_score,
     correlation_type  |-> correlations[c].correlation_type,
     evidence          |-> correlations[c].evidence]

-----------------------------------------------------------------------------
(* Ingestion order: the records of the two streams in every interleaving,  *)
(* observed in the order load_trace_data passes them on.                   *)

OrderRequests == {HttpRequest(5, 100, Scenario.request_ts)}

OrderResponses ==
    { HttpResponse(5, 100, T0, RawBody(RunCatTmpOutTxt)),
      HttpResponse(5, 100, T1, RawBody(Ok)) }

OrderProcessRecords ==
    { ProcessEvent(100, 1, Bash, T0),
      ProcessEventArgs(101, 100, Cat, T0 + 3 * W1, <<TmpOutTxt>>),
      ProcessEvent(999, 1, Cat, T0 + 1) }

\* load_trace_data hands a process record to _process_event
ObserveSystemEvent(event) ==
    /\ Len(observed) < MaxObserved
    /\ ProcessSystemEventWithin(event, MaxObserved)
    /\ observed' = Append(observed, event)
    /\ UNCHANGED call

InitOrder == Construct(Sample.window_ms)

NextOrder ==
    \/ \E event \in OrderRequests : ObserveRequest(event)
    \/ \E event \in OrderResponses : ObserveResponse(event)
    \/ \E event \in OrderProcessRecords : ObserveSystemEvent(event)
    \/ CorrelateEvents /\ UNCHANGED <<observed, call>>

SpecOrder == InitOrder /\ [][NextOrder]_vars

IsHttp(event) == event.source = "http_parser"

IsSystem(event) == event.source = "process"

\* the http_parser stream and the system stream of the trace, each in its
\* own order
HttpStream == SelectSeq(observed, IsHttp)

SystemStream == SelectSeq(observed, IsSystem)

\* the pending requests and the interactions after the http_parser records
\* of stream alone
RECURSIVE PairedFrom(_)
PairedFrom(stream) ==
    IF stream = <<>> THEN [pending |-> <<>>, interactions |-> <<>>]
    ELSE LET before == PairedFrom(SubSeq(stream, 1, Len(stream) - 1))
             event  == Last(stream)
             tid    == Tid(event)
         IN  IF IsRequest(event)
             THEN [pending |->
                       [t \in DOMAIN before.pending \cup {tid} |->
                           IF t = tid THEN RequestInfo(event)
                           ELSE before.pending[t]],
                   interactions |-> before.interactions]
             ELSE IF tid \notin DOMAIN before.pending THEN before
             ELSE [pending |->
                       [t \in DOMAIN before.pending \ {tid} |->
                           before.pending[t]],
                   interactions |->
                       Append(before.interactions,
                              NewInteraction(before.pending[tid], event))]

\* the process map and the root list after the system records of stream
\* alone
RECURSIVE TreeFrom(_)
TreeFrom(stream) ==
    IF stream = <<>> THEN [processes |-> <<>>, roots |-> <<>>]
    ELSE LET before == TreeFrom(SubSeq(stream, 1, Len(stream) - 1))
         IN  [processes |->
                  AddProcessEventProcesses(before.processes, Last(stream)),
              roots |->
                  AddProcessEventRoots(before.processes, before.roots,
                                       Last(stream))]

\* C28: what is ingested, and so what correlate_events returns, is fixed by
\* the http_parser records in their order and the system records in their
\* order, wherever the records of one stream are placed among those of the
\* other: two ingestion orders with the same two streams give the same
\* interactions, tree, system events and correlations.
C28_IngestionOrderBetweenStreamsIsIrrelevant ==
    /\ llm_interactions = PairedFrom(HttpStream).interactions
    /\ pending_requests = PairedFrom(HttpStream).pending
    /\ system_events = SystemStream
    /\ processes = TreeFrom(SystemStream).processes
    /\ root_processes = TreeFrom(SystemStream).roots
    /\ Correlated =>
          \A c \in Emitted :
              ResultOf(c) = ComputedAlone(llm_interactions[InteractionOf(c)])

\* a system record is ingested before the request and the response of the
\* interaction, and the correlation of the interaction lists it
C28_Witness ==
    /\ Correlated
    /\ Len(observed) = 3
    /\ IsSystem(observed[1])
    /\ IsHttp(observed[2]) /\ IsRequest(observed[2])
    /\ IsHttp(observed[3]) /\ IsResponse(observed[3])
    /\ Len(correlations) = 1
    /\ correlations[1].system_actions = <<1>>

-----------------------------------------------------------------------------
(* Configuration: the engine built with a negative, a zero and the default *)
(* window, fed the scenario trace.                                         *)

\* values of --temporal-window
ConfigWindows == {-1, 0, DefaultTemporalWindowMs}

InitConfig == \E w \in ConfigWindows : Construct(w)

SpecConfig == InitConfig /\ [][NextScenario]_vars

\* C30: an engine whose window is zero or negative is rejected when it is
\* constructed: no record is ever ingested and correlate_events never
\* runs, fails or produces scores under it.
C30_InvalidConfigurationRejected ==
    temporal_window_ms <= 0 =>
        /\ pc = "load"
        /\ pending_requests = <<>>
        /\ llm_interactions = <<>>
        /\ system_events = <<>>
        /\ correlations = <<>>

-----------------------------------------------------------------------------
(* The argument matcher called directly: ArgumentMatcher is a class of its *)
(* own and calculate_argument_match_score a function of its two arguments. *)

\* the longest argument list passed to the matcher
MaxArgs == 2

\* "cat /tmp"
CatTmp == Cat \o <<" ">> \o Tmp

\* references as extract_references returns them
RefSamples == {TmpOutTxt, OutTxt, Cat, CatTmp}

\* argument strings as extract_event_arguments returns them
ArgSamples == {Tmp, Cat, OutTxt}

ArgLists == UNION {[1..n -> ArgSamples] : n \in 0..MaxArgs}

\* matcher.calculate_argument_match_score(llm_refs, system_args)
CallMatchScore(llm_refs, system_args) ==
    /\ call' = [fn |-> "calculate_argument_match_score",
                llm_refs |-> llm_refs,
                system_args |-> system_args,
                result |-> calculate_argument_match_score(llm_refs, system_args)]
    /\ UNCHANGED <<temporal_window_ms, processes, root_processes,
                   pending_requests, llm_interactions, system_events,
                   correlations, pc, requests_seen, observed>>

NextMatch ==
    \E llm_refs \in SUBSET RefSamples, system_args \in ArgLists :
        CallMatchScore(llm_refs, system_args)

SpecMatch == Init /\ [][NextMatch]_vars

\* the matcher has been called
MatchCalled == call.fn = "calculate_argument_match_score"

\* C31: the match score is exactly 0.0 whenever the reference set is empty
\* or the argument list is empty, whatever the other input is.
C31_EmptyInputScoresZero ==
    (MatchCalled /\ (call.llm_refs = {} \/ call.system_args = <<>>)) =>
        call.result = [n |-> 0, d |-> 1]

\* the matcher was called with references and no argument
C31_Witness ==
    /\ MatchCalled
    /\ call.llm_refs = {TmpOutTxt, Cat}
    /\ call.system_args = <<>>
    /\ call.result = [n |-> 0, d |-> 1]

\* references found verbatim in the joined argument text
FullMatches(llm_refs, system_args) ==
    {ref \in llm_refs : IsSubstring(ref, Join(<<" ">>, system_args))}

\* references that only overlap one argument: inside it, or around it
PartialMatches(llm_refs, system_args) ==
    {ref \in llm_refs \ FullMatches(llm_refs, system_args) :
        \E arg \in Range(system_args) :
            IsSubstring(ref, arg) \/ IsSubstring(arg, ref)}

\* C32: for non-empty inputs the match score is the mean over the
\* references of 1.0 for a reference inside the space-joined argument
\* text, else 0.5 for one inside or around a single argument, else 0.0;
\* the result lies in [0, 1].
C32_ScoreIsMeanContribution ==
    (MatchCalled /\ call.llm_refs # {} /\ call.system_args # <<>>) =>
        LET full == Cardinality(FullMatches(call.llm_refs, call.system_args))
            half == Cardinality(PartialMatches(call.llm_refs, call.system_args))
            total == Cardinality(call.llm_refs)
        IN  /\ call.result.n * 2 * total = (2 * full + half) * call.result.d
            /\ call.result.d > 0
            /\ 0 <= call.result.n /\ call.result.n <= call.result.d

\* "cat /tmp" is found in the joined text of <<"cat", "/tmp">> alone,
\* "/tmp/out.txt" only contains "/tmp", "out.txt" matches nothing: 1.5 / 3
C32_Witness ==
    /\ MatchCalled
    /\ call.llm_refs = {CatTmp, TmpOutTxt, OutTxt}
    /\ call.system_args = <<Cat, Tmp>>
    /\ call.result = [n |-> 1, d |-> 2]

-----------------------------------------------------------------------------
(* Accumulation during ingestion, over the traces of SpecOrder *)

\* the step hands a record to _process_event
IngestStep == observed' # observed

\* before is the beginning of after
IsPrefix(before, after) ==
    /\ Len(before) <= Len(after)
    /\ SubSeq(after, 1, Len(before)) = before

\* C33: ingestion is append-only: no step removes a process node, and no
\* step removes, duplicates or reorders a system event; a process record
\* appends exactly itself at the end of the system events, and no other
\* step changes the list.
C33_IngestionIsAppendOnly ==
    [][ /\ DOMAIN processes \subseteq DOMAIN processes'
        /\ IsPrefix(system_events, system_events')
        /\ IF IngestStep /\ IsSystem(Last(observed'))
           THEN system_events' = Append(system_events, Last(observed'))
           ELSE system_events' = system_events ]_vars

\* the same process record is ingested twice around a request: it is
\* stored twice, in the order of arrival, and its node is kept
C33_Witness ==
    /\ Len(observed) = 3
    /\ IsSystem(observed[1])
    /\ IsHttp(observed[2])
    /\ observed[3] = observed[1]
    /\ system_events = <<observed[1], observed[1]>>
    /\ Pid(observed[1]) \in DOMAIN processes

-----------------------------------------------------------------------------
(* Walks of the tree, over the trees of SpecTree *)

\* both walks from pid come to an end: the parent walk of
\* find_process_lineage returns and add_children of find_related_processes
\* does not recurse without end
WalksEnd(procs, pid) ==
    /\ find_process_lineage(procs, pid).returns
    /\ ~RelatedDiverges(procs, pid)

\* C34: find_process_lineage and find_related_processes terminate for
\* every pid on every tree a sequence of add_process_event calls builds, a
\* record with ppid = pid and records naming each other as parent included.
C34_TreeWalksTerminate ==
    \A pid \in TreePids : WalksEnd(processes, pid)

\* n is in the child list of p exactly when the parent link of n is p
LinkedBothWays(procs, n, p) ==
    (procs[n].parent = p) <=> (n \in Range(procs[p].children))

\* C35: in every reachable state a node has parent p if and only if it is
\* in p's child list, every node is in the child list of at most one node,
\* and no child list holds the same node twice.
C35_ParentAndChildLinksAgree ==
    /\ \A n, p \in DOMAIN processes : LinkedBothWays(processes, n, p)
    /\ \A n \in DOMAIN processes :
          Cardinality(ParentsListing(processes, n)) <= 1
    /\ \A p \in DOMAIN processes : NoDuplicates(processes[p].children)

-----------------------------------------------------------------------------
(* The temporal term of the score, over the traces of Spec *)

\* how far event e is from the response of interaction i, on either side
DistanceNs(i, e) == Abs(Ts(e) - ResponseTs(i))

\* temporalProximity as a function of the distance alone
ProximityAt(distance) ==
    IF distance >= WindowNs THEN Rat(0, 1)
    ELSE Rat(WindowNs - distance, WindowNs)

\* 0.3 * lineageIndicator + 0.4 * argumentScore of the k-th event of c
OtherTerms(c, k) ==
    LET i   == InteractionOf(c)
        e   == correlations[c].system_actions[k]
        arg == calculate_argument_match_score(
                   llm_interactions[i].extracted_references, ScoredArguments(c, k))
    IN  RatAdd(Rat(3 * LineageIndicator(i, e), 10), RatMul(Rat(4, 10), arg))

\* what the temporal terms of the events of c add to the sum of the
\* weighted scores: Score(c) * n less the other terms
TemporalTerms(c) ==
    LET n == Len(correlations[c].system_actions)
    IN  RatAdd(RatMul(Score(c), Rat(n, 1)),
               RatMul(Rat(-1, 1), RatSum([k \in 1..n |-> OtherTerms(c, k)])))

\* event e precedes the response of i by less than the window
ShortlyBefore(i, e) ==
    Ts(e) < ResponseTs(i) /\ ResponseTs(i) - Ts(e) < WindowNs

\* C36: the temporal term of an included event depends on its distance
\* from the response alone, d ns before counting as d ns after; so an
\* event that fails the temporal predicate because it precedes the
\* response by less than W still adds a positive temporal term.
C36_TemporalTermUsesAbsoluteDistance ==
    Correlated =>
        \A c \in Emitted :
            LET i == InteractionOf(c)
                actions == correlations[c].system_actions
            IN  /\ TemporalTerms(c)
                       = RatSum([k \in 1..Len(actions) |->
                             RatMul(Rat(3, 10),
                                    ProximityAt(DistanceNs(i, actions[k])))])
                /\ (Len(actions) = 1 /\ ShortlyBefore(i, actions[1])) =>
                       /\ ~Temporal(i, actions[1])
                       /\ RatLess(Rat(0, 1), TemporalTerms(c))

\* a correlation lists an event before the response and an event as far
\* after it, and nothing else: each adds the same positive temporal term
C36_Witness ==
    /\ Correlated
    /\ \E c \in Emitted :
          \E e, x \in Range(correlations[c].system_actions) :
              /\ Ts(e) < ResponseTs(InteractionOf(c))
              /\ Ts(x) > ResponseTs(InteractionOf(c))
              /\ DistanceNs(InteractionOf(c), e) = DistanceNs(InteractionOf(c), x)
              /\ Len(correlations[c].system_actions) = 2
              /\ TemporalTerms(c)
                     = RatMul(Rat(6, 10),
                              ProximityAt(DistanceNs(InteractionOf(c), e)))
              /\ RatLess(Rat(0, 1), TemporalTerms(c))

\* a correlation lists one event, shortly before the response
C36_WitnessAlone ==
    /\ Correlated
    /\ \E c \in Emitted :
          /\ Len(correlations[c].system_actions) = 1
          /\ ShortlyBefore(InteractionOf(c), correlations[c].system_actions[1])

-----------------------------------------------------------------------------
(* Pairing per tid, over the traces of SpecPairing *)

\* the pending entries of the tids other than tid are the same, entry by
\* entry, before and after the step
OtherTidsUntouched(tid) ==
    /\ DOMAIN pending_requests' \ {tid} = DOMAIN pending_requests \ {tid}
    /\ \A other \in DOMAIN pending_requests \ {tid} :
          pending_requests'[other] = pending_requests[other]

\* the step appends an interaction
EmitsInteraction == Len(llm_interactions') = Len(llm_interactions) + 1

\* C37: a request or a response on tid A never creates, overwrites or
\* removes the pending request of another tid; the interaction emitted for
\* a response on tid A carries a request ingested on tid A; the pending map
\* holds one entry per tid, a request of that tid.
C37_PairingIsolatedPerTid ==
    [][IngestStep =>
          LET event == Last(observed')
          IN  /\ OtherTidsUntouched(Tid(event))
              /\ EmitsInteraction =>
                    LET made == Last(llm_interactions')
                    IN  /\ IsResponse(event)
                        /\ made.tid = Tid(event)
                        /\ made.request_data.tid = Tid(event)
                        /\ \E k \in RequestsOn(Tid(event)) :
                              made.request_data = observed[k].data
              /\ \A tid \in DOMAIN pending_requests' :
                    pending_requests'[tid].data.tid = tid]_vars

\* requests are pending on two tids and the response on one of them is
\* answered: its interaction carries the request of its tid and the
\* request of the other tid is still pending
C37_Witness ==
    /\ Len(observed) = 3
    /\ IsRequest(observed[1]) /\ IsRequest(observed[2])
    /\ Tid(observed[1]) # Tid(observed[2])
    /\ IsResponse(observed[3]) /\ Tid(observed[3]) = Tid(observed[1])
    /\ Len(llm_interactions) = 1
    /\ llm_interactions[1].request_data = observed[1].data
    /\ DOMAIN pending_requests = {Tid(observed[2])}
    /\ pending_requests[Tid(observed[2])].data = observed[2].data

-----------------------------------------------------------------------------
(* The order of systemActions: process records that share a timestamp and  *)
(* records that arrive out of timestamp order, around one interaction.     *)

\* the most process records of a trace
MaxSortRecords == 3

SortResponses == {HttpResponse(5, 100, T0, RawBody(Ok))}

SortProcessRecords ==
    { ProcessEvent(100, 1, Bash, T0 + 1),
      ProcessEvent(101, 100, Cat, T0 + 1),
      ProcessEvent(100, 1, Python, T0) }

NextSort ==
    \/ \E event \in OrderRequests :
          ProcessHttpRequest(event) /\ UNCHANGED <<observed, call>>
    \/ \E event \in SortResponses :
          ProcessHttpResponse(event) /\ UNCHANGED <<observed, call>>
    \/ \E event \in SortProcessRecords :
          /\ ProcessSystemEventWithin(event, MaxSortRecords)
          /\ UNCHANGED <<observed, call>>
    \/ CorrelateEvents /\ UNCHANGED <<observed, call>>

SpecSort == Init /\ [][NextSort]_vars

\* C38: within every emitted correlation the systemActions are in
\* non-decreasing timestamp order whatever the ingestion order, and events
\* of equal timestamp keep their ingestion order.
C38_SystemActionsSortedStably ==
    Correlated =>
        \A c \in Emitted :
            LET actions == correlations[c].system_actions
            IN  \A j, k \in 1..Len(actions) :
                    j < k =>
                        /\ Ts(actions[j]) <= Ts(actions[k])
                        /\ Ts(actions[j]) = Ts(actions[k]) =>
                              actions[j] < actions[k]

\* two different records of one timestamp are ingested, then a record of
\* an earlier timestamp: the late record is listed first and the two keep
\* their order
C38_Witness ==
    /\ Correlated
    /\ Len(system_events) = 3
    /\ Ts(1) = Ts(2) /\ system_events[1] # system_events[2]
    /\ Ts(3) < Ts(1)
    /\ Len(correlations) = 1
    /\ correlations[1].system_actions = <<3, 1, 2>>

-----------------------------------------------------------------------------
(* Dispatch by source: a trace with records of every source, process       *)
(* records without pid or without comm among them.                         *)

DispatchRequests == {HttpRequest(5, 100, Shapes.request_ts)}

DispatchResponses == {HttpResponse(5, 100, Shapes.response_ts, RawBody(Ok))}

DispatchProcessRecords ==
    { ProcessEvent(100, 1, Bash, Shapes.event_ts),
      [source |-> "process", timestamp |-> Shapes.event_ts,
       data |-> [pid |-> 200, ppid |-> 100]],
      [source |-> "process", timestamp |-> Shapes.event_ts,
       data |-> [comm |-> Str(Cat)]] }

DispatchOtherRecords ==
    { [source |-> "ssl", timestamp |-> Shapes.event_ts,
       data |-> [pid |-> 100, comm |-> Str(Python)]],
      [source |-> "sse_processor", timestamp |-> Shapes.event_ts,
       data |-> [pid |-> 100, tid |-> 5]],
      [source |-> "stdio", timestamp |-> Shapes.event_ts,
       data |-> [pid |-> 100, comm |-> Str(Bash)]] }

\* an ignored record that is stored as a system event all the same
ObserveIgnoredEventStored(event) ==
    /\ Len(observed) < MaxObserved
    /\ pc = "load"
    /\ event.source \notin {"http_parser", "process"}
    /\ observed' = Append(observed, event)
    /\ system_events' = Append(system_events, event)
    /\ UNCHANGED <<temporal_window_ms, processes, root_processes,
                   pending_requests, llm_interactions, correlations,
                   pc, requests_seen, call>>

\* load_trace_data hands _process_event a record of source ssl or
\* sse_processor, whose handlers pass, or of a source no branch names
ObserveIgnoredEvent(event) ==
    /\ Len(observed) < MaxObserved
    /\ pc = "load"
    /\ event.source \notin {"http_parser", "process"}
    /\ observed' = Append(observed, event)
    /\ UNCHANGED <<temporal_window_ms, processes, root_processes,
                   pending_requests, llm_interactions, system_events,
                   correlations, pc, requests_seen, call>>

NextDispatch ==
    \/ \E event \in DispatchRequests : ObserveRequest(event)
    \/ \E event \in DispatchResponses : ObserveResponse(event)
    \/ \E event \in DispatchProcessRecords : ObserveSystemEvent(event)
    \/ \E event \in DispatchOtherRecords : ObserveIgnoredEvent(event)

SpecDispatch == Init /\ [][NextDispatch]_vars

\* the record carries what add_process_event needs: a pid and a comm
NamesProcess(event) ==
    "pid" \in DOMAIN event.data /\ "comm" \in DOMAIN event.data

\* C39: only process records change the process tree or the system-event
\* list, only http_parser records change the pending map or the
\* interaction list, records of any other source change nothing; a process
\* record without pid or comm is appended to the system events and
\* creates no node.
C39_DispatchFrameBySource ==
    [][IngestStep =>
          LET event == Last(observed')
          IN  /\ ~IsSystem(event) =>
                    UNCHANGED <<processes, root_processes, system_events>>
              /\ ~IsHttp(event) =>
                    UNCHANGED <<pending_requests, llm_interactions>>
              /\ (~IsSystem(event) /\ ~IsHttp(event)) =>
                    UNCHANGED <<correlations, temporal_window_ms, pc>>
              /\ (IsSystem(event) /\ ~NamesProcess(event)) =>
                    /\ system_events' = Append(system_events, event)
                    /\ UNCHANGED <<processes, root_processes>>]_vars

\* after a request, an ssl record and a process record without comm: the
\* request is pending, the process record is the only system event and
\* there is no node
C39_Witness ==
    /\ Len(observed) = 3
    /\ IsHttp(observed[1]) /\ IsRequest(observed[1])
    /\ observed[2].source = "ssl"
    /\ IsSystem(observed[3]) /\ "comm" \notin DOMAIN observed[3].data
    /\ system_events = <<observed[3]>>
    /\ DOMAIN processes = {}
    /\ root_processes = <<>>
    /\ DOMAIN pending_requests = {Tid(observed[1])}
    /\ llm_interactions = <<>>

====
